---------------------------- MODULE Spec2Model ----------------------------
(***************************************************************************)
(* A model of the torrentfs peer protocol and demand-scheduling engine     *)
(* (vendor/github.com/CortexFoundation/torrentfs/fs.go): the Dedup Tunnel  *)
(* and broadcast, the per-peer message loop, the scheduler loop (listen),  *)
(* the fetch path (download), Stop, New, GetFileWithSize, SeedingLocal and *)
(* Status; of rpc.Server (rpc/server.go); of the size-constrained LRU as   *)
(* its tests use it; and of the inference server's submit and Close.       *)
(*                                                                         *)
(* Several specifications share the variables; each exercises one part:    *)
(*   SpecTunnel   sequential broadcast calls against the tunnel and clock  *)
(*   SpecPeer     HandlePeer sessions and their message loops              *)
(*   SpecStatus   Status queries while the collaborator's flags change     *)
(*   SpecGetFile  GetFileWithSize calls and their goroutines               *)
(*   SpecStop     the scheduler loop, its goroutines and Stop              *)
(*   SpecShutdown several Stop calls                                       *)
(*   Spec         Stop, the scheduler loop and peer loops together         *)
(*   SpecRegistry the peer registry and its lock                           *)
(*   SpecOrder    one connection's packets, in order                       *)
(*   SpecFetch    download calls with every answer of its collaborators    *)
(*   SpecAnnounce broadcast goroutines interleaved on the tunnel           *)
(*   SpecOracle   Status queries beside the scheduler loop                 *)
(*   SpecNew      concurrent New calls                                     *)
(*   SpecSeen     the seen-set, encounter goroutines and Stop              *)
(*   SpecSeed     SeedingLocal calls                                       *)
(*   SpecRpc      rpc.Server: ServeCodec and Stop                          *)
(*   SpecLru      the size-constrained cache under Add and Get              *)
(*   SpecHeld     download calls against what the collaborator holds        *)
(*   SpecTick     the scheduler loop with its timers and deferred queue     *)
(*   SpecTwins    two HandlePeer sessions that may share a node id          *)
(*   SpecStopLive SpecStop under fair scheduling                            *)
(*   SpecHandOff  Download calls whose contexts end                         *)
(*   SpecInfer    the inference server: submit, worker loop and Close       *)
(***************************************************************************)
EXTENDS Integers, Sequences, FiniteSets, Bags, TLC

VARIABLES
    tunnel,     \* fs.tunnel: key -> [value, expiry]; the domain is the keys held
    now,        \* the wall clock, in seconds
    bcLog,      \* history: the broadcast calls made so far, in call order
    peers,      \* fs.peers: node id -> session; the domain is the ids registered
    in,         \* fs.in: registrations so far
    out,        \* fs.out: unregistrations so far
    sess,       \* per session: the position of its HandlePeer call and its Peer
    ledger,     \* the progress ledger (ChainDB): hash -> size tracked
    searches,   \* the Search requests the swarm collaborator has received
    torrents,   \* the swarm collaborator's flags per hash
    statusRes,  \* history: the last Status call, the flags it met and its result
    gets,       \* per GetFileWithSize call: its position, arguments and result
    tasks,      \* the goroutines spawned and not yet finished (a bag)
    wg,         \* fs.wg: the WaitGroup's counter
    worm,       \* fs.worm: the seen-set
    callback,   \* fs.callback: the intake channel of download events
    ttlchan,    \* fs.ttlchan: the deferred queue
    listen,     \* the scheduler loop: its position and the event it holds
    closeAll,   \* fs.closeAll: TRUE once the channel is closed
    once,       \* fs.once: "fresh", "running" or "done"
    closed,     \* per collaborator: how many times Stop released it
    stops,      \* per Stop call: its position and what it met
    peerMu,     \* fs.peerMu: the session holding it for writing, the readers
    callers,    \* per PeerInfo or Neighbors call: its position and result
    net,        \* TRUE when fs.net is set (Start was given a server)
    wire,       \* per session: the packets the remote peer wrote, not yet read
    handled,    \* per session: the packets the message loop handled, in order
    fetched,    \* history: the last call of download, its answers and its result
    inst,       \* the package variable inst: empty for nil, else the instance
    mut,        \* the package mutex mut: the New calls holding it
    news,       \* per New call: its position and what it returned
    built,      \* the number of TorrentFS values constructed so far
    seed,       \* the SeedingLocal call: its position, mode, error and what it did
    localSeeds, \* the hashes registered with AddLocalSeedFile
    run,        \* rpc.Server.run
    codecs,     \* rpc.Server.codecs: the codecs tracked
    rpcMu,      \* rpc.Server.mutex: the calls holding it
    serves,     \* per codec: the position of its ServeCodec call
    codecClosed, \* per codec: TRUE once the codec is closed
    rpcStop,    \* the position of the Server.Stop call
    lru,        \* the size-constrained cache: its keys, least recently used first
    lruSize,    \* SizeConstrainedLRU.size
    lruGot,     \* what the last Get returned
    stored,     \* per hash: the bytes of the artifact the swarm collaborator holds
    ttl,        \* listen's timer ttl: armed, fired (a value waits on ttl.C) or idle
    ticker,     \* listen's ticker: armed, or fired (a value waits on ticker.C)
    deferLog,   \* the events sent on fs.ttlchan, in the order sent
    refetched,  \* the events received from fs.ttlchan, in the order received
    dl,         \* per Download call: its position, its context, and what it did and returned
    stopInfer,  \* InferenceServer.stopInfer: 1 while open, 0 once closed
    exitCh,     \* TRUE once InferenceServer.exitCh is closed
    fetchWork,  \* the position of the worker loop fetchWork
    subs,       \* per submitInferWork call: its position and what it returned
    inferClose  \* the position of the Close call

tunnelVars == <<tunnel, now, bcLog>>
peerVars == <<peers, in, out, sess>>
collabVars == <<ledger, searches, torrents>>
apiVars == <<statusRes, gets, worm>>
taskVars == <<tasks, wg>>
stopVars == <<callback, ttlchan, listen, closeAll, once, closed, stops>>
lockVars == <<peerMu, callers, net>>
connVars == <<wire, handled>>
fetchVars == <<fetched>>
newVars == <<inst, mut, news, built>>
seedVars == <<seed, localSeeds>>
rpcVars == <<run, codecs, rpcMu, serves, codecClosed, rpcStop>>
lruVars == <<lru, lruSize, lruGot>>
heldVars == <<stored>>
tickVars == <<ttl, ticker, deferLog, refetched>>
dlVars == <<dl>>
inferVars == <<stopInfer, exitCh, fetchWork, subs, inferClose>>
auxVars == <<lruVars, heldVars, tickVars, dlVars, inferVars>>
auxButLru == <<heldVars, tickVars, dlVars, inferVars>>
auxButHeld == <<lruVars, tickVars, dlVars, inferVars>>
auxButTick == <<lruVars, heldVars, dlVars, inferVars>>
auxButDl == <<lruVars, heldVars, tickVars, inferVars>>
auxButInfer == <<lruVars, heldVars, tickVars, dlVars>>
extVars == <<fetchVars, newVars, seedVars, rpcVars, auxVars>>

(***************************************************************************)
(* Bounds of the model.                                                    *)
(***************************************************************************)
MaxSize == 2        \* sizes range over 0..MaxSize
MaxClock == 90      \* the clock stops at MaxClock seconds
TickStep == 30      \* seconds the clock advances per Tick
MaxCalls == 3       \* broadcast calls recorded in SpecTunnel

Sizes == 0..MaxSize

(***************************************************************************)
(* Content hashes are strings, modelled as sequences of characters so that *)
(* the address-shape test and lower-casing are computed, not assumed.      *)
(***************************************************************************)
AddressHexLen == 2  \* 2*common.AddressLength hex digits, scaled down

LowerHex == {"0", "1", "a", "b", "c", "d"}
UpperHex == {"A", "B", "C", "D"}
HexDigits == LowerHex \cup UpperHex

HashAB == <<"a", "b">>          \* well formed, canonical
HashCd == <<"C", "d">>          \* well formed, mixed case
Hash0xAB == <<"0", "x", "a", "b">>  \* well formed, with the 0x prefix
HashBadChar == <<"g", "1">>     \* right length, not hex
HashShort == <<"a">>            \* hex, wrong length

has0xPrefix(s) ==
    Len(s) >= 2 /\ s[1] = "0" /\ s[2] \in {"x", "X"}

isHex(s) == \A i \in 1..Len(s) : s[i] \in HexDigits

\* common.IsHexAddress: an optional 0x prefix, then exactly the fixed number
\* of hex digits.
IsHexAddress(s) ==
    LET body == IF has0xPrefix(s) THEN SubSeq(s, 3, Len(s)) ELSE s
    IN  Len(body) = AddressHexLen /\ isHex(body)

lowerChar(c) ==
    CASE c = "A" -> "a"
      [] c = "B" -> "b"
      [] c = "C" -> "c"
      [] c = "D" -> "d"
      [] c = "X" -> "x"
      [] OTHER -> c

\* strings.ToLower
ToLower(s) == [i \in 1..Len(s) |-> lowerChar(s[i])]

(***************************************************************************)
(* The Dedup Tunnel (ttlmap.Map).  An entry is live until its expiry; Get  *)
(* consults only live entries; eviction removes an expired entry; Drain    *)
(* removes every entry.                                                    *)
(***************************************************************************)
TTL == 60

EmptyTunnel == <<>>

TunnelHas(tun, key, t) == key \in DOMAIN tun /\ t < tun[key].expiry

\* ttlmap.Map.Get: the live entry's value, or an error when there is none.
TunnelGet(tun, key, t) ==
    IF TunnelHas(tun, key, t)
    THEN [err |-> FALSE, value |-> tun[key].value]
    ELSE [err |-> TRUE, value |-> 0]

\* ttlmap.Map.Set with ttlmap.NewItem(value, WithTTL(ttl)): insert or replace.
TunnelSet(tun, key, value, expiry) ==
    [k \in DOMAIN tun \cup {key} |->
        IF k = key THEN [value |-> value, expiry |-> expiry] ELSE tun[k]]

\* The eviction of one entry.
TunnelDelete(tun, key) == [k \in DOMAIN tun \ {key} |-> tun[k]]

\* ttlmap.Map.Len
TunnelLen(tun) == Cardinality(DOMAIN tun)

\* ttlmap.Map.Drain
TunnelDrain(tun) == EmptyTunnel

(***************************************************************************)
(* TorrentFS.broadcast(ih, rawSize) at time t on tunnel tun: the value     *)
(* returned and the tunnel afterwards.                                     *)
(***************************************************************************)
\* A mutant: suppresses only a strictly larger earlier announcement.
broadcast_strictGreater(tun, ih, rawSize, t) ==
    IF ~IsHexAddress(ih)
    THEN [ret |-> FALSE, tunnel |-> tun]
    ELSE IF ~TunnelGet(tun, ih, t).err /\ TunnelGet(tun, ih, t).value > rawSize
         THEN [ret |-> FALSE, tunnel |-> tun]
         ELSE [ret |-> TRUE, tunnel |-> TunnelSet(tun, ih, rawSize, t + TTL)]

\* A mutant: suppresses whenever a live entry exists, whatever its size.
broadcast_anyEntry(tun, ih, rawSize, t) ==
    IF ~IsHexAddress(ih)
    THEN [ret |-> FALSE, tunnel |-> tun]
    ELSE IF ~TunnelGet(tun, ih, t).err
         THEN [ret |-> FALSE, tunnel |-> tun]
         ELSE [ret |-> TRUE, tunnel |-> TunnelSet(tun, ih, rawSize, t + TTL)]

\* A mutant: the item is stored without a TTL and never expires.
broadcast_noTTL(tun, ih, rawSize, t) ==
    IF ~IsHexAddress(ih)
    THEN [ret |-> FALSE, tunnel |-> tun]
    ELSE IF ~TunnelGet(tun, ih, t).err /\ TunnelGet(tun, ih, t).value >= rawSize
         THEN [ret |-> FALSE, tunnel |-> tun]
         ELSE [ret |-> TRUE,
               tunnel |-> TunnelSet(tun, ih, rawSize, t + TTL * (MaxClock + 1))]

\* A mutant: the hash is not validated.
broadcast_noValidation(tun, ih, rawSize, t) ==
    IF ~TunnelGet(tun, ih, t).err /\ TunnelGet(tun, ih, t).value >= rawSize
    THEN [ret |-> FALSE, tunnel |-> tun]
    ELSE [ret |-> TRUE, tunnel |-> TunnelSet(tun, ih, rawSize, t + TTL)]

broadcast(tun, ih, rawSize, t) ==
    IF ~IsHexAddress(ih)
    THEN [ret |-> FALSE, tunnel |-> tun]
    ELSE IF ~TunnelGet(tun, ih, t).err /\ TunnelGet(tun, ih, t).value >= rawSize
         THEN [ret |-> FALSE, tunnel |-> tun]
         ELSE [ret |-> TRUE, tunnel |-> TunnelSet(tun, ih, rawSize, t + TTL)]

(***************************************************************************)
(* broadcast called one call at a time while the clock runs.               *)
(***************************************************************************)
\* One call of broadcast; the call, the live entry it met and its result are
\* appended to the history.
Broadcast(ih, rawSize) ==
    /\ Len(bcLog) < MaxCalls
    /\ LET r == broadcast(tunnel, ih, rawSize, now)
       IN  /\ tunnel' = r.tunnel
           /\ bcLog' = Append(bcLog, [ih |-> ih, size |-> rawSize, at |-> now,
                                      pre |-> TunnelGet(tunnel, ih, now),
                                      ret |-> r.ret])
    /\ UNCHANGED now

Tick ==
    /\ now + TickStep <= MaxClock
    /\ now' = now + TickStep
    /\ UNCHANGED <<tunnel, bcLog>>

\* The tunnel's keeper evicts an entry whose TTL has elapsed.
Evict(key) ==
    /\ key \in DOMAIN tunnel
    /\ tunnel[key].expiry <= now
    /\ tunnel' = TunnelDelete(tunnel, key)
    /\ UNCHANGED <<now, bcLog>>

(***************************************************************************)
(* The progress ledger (ChainDB) and the swarm collaborator's Search.      *)
(***************************************************************************)
EmptyLedger == <<>>

\* ChainDB.GetTorrentProgress: the size tracked for the hash, or an error.
GetTorrentProgress(led, ih) ==
    IF ih \in DOMAIN led
    THEN [err |-> FALSE, p |-> led[ih]]
    ELSE [err |-> TRUE, p |-> 0]

\* TorrentFS.progress
progress(led, ih) == GetTorrentProgress(led, ih)

\* A mutant: wakeup makes no request of the swarm collaborator.
wakeup_noSearch(led, ih) == {}

\* TorrentFS.wakeup(ctx, ih): the Search requests it makes of the swarm
\* collaborator (none when the ledger has no progress for ih).
wakeup(led, ih) ==
    IF ~progress(led, ih).err
    THEN {[ih |-> ih, size |-> progress(led, ih).p]}
    ELSE {}

(***************************************************************************)
(* Wire messages.  A packet has a code, a size, a payload and whether the  *)
(* payload decodes; a Status payload is a PeerInfo, a Query payload a hash.*)
(***************************************************************************)
MaxMessageSize == 2     \* params.DefaultMaxMessageSize, scaled down
ProtocolVersion == 4    \* params.ProtocolVersion

StatusCode == "StatusCode"
QueryCode == "QueryCode"
MsgCode == "MsgCode"
OtherCode == "OtherCode"    \* any code outside the protocol's three

Infos == {"info1", "info2"}
NoInfo == "nil"
NoPacket == [code |-> "none"]
NoErr == "nil"

PacketSizes == {MaxMessageSize, MaxMessageSize + 1}

\* A payload that does not decode carries nothing the loop can read.
Undecodable(code) == [code : {code}, size : PacketSizes, decodes : {FALSE}]

StatusPackets ==
    [code : {StatusCode}, size : PacketSizes, decodes : {TRUE}, info : Infos]
        \cup Undecodable(StatusCode)
QueryPackets(hashes) ==
    [code : {QueryCode}, size : PacketSizes, decodes : {TRUE}, hash : hashes]
        \cup Undecodable(QueryCode)
MsgPackets ==
    [code : {MsgCode}, size : PacketSizes, decodes : {TRUE}]
        \cup Undecodable(MsgCode)
OtherPackets ==
    [code : {OtherCode}, size : PacketSizes]

Packets(hashes) ==
    StatusPackets \cup QueryPackets(hashes) \cup MsgPackets \cup OtherPackets

(***************************************************************************)
(* One iteration of TorrentFS.runMessageLoop after ReadMsg delivered       *)
(* packet m to a session whose cached info is info: the error that ends    *)
(* the session (NoErr when the loop goes on), the session's info           *)
(* afterwards, and the hashes wakeup is called for.                        *)
(***************************************************************************)
Step(err, info, wake) == [err |-> err, peerInfo |-> info, wake |-> wake]

\* A mutant: the size check lets nothing through at the maximum size.
oversized_atMax(m) == m.size >= MaxMessageSize

oversized(m) == m.size > MaxMessageSize

\* A mutant: the hash of a Query is not validated.
queryCase_noValidation(info, m) ==
    IF ProtocolVersion >= 4
    THEN IF ~m.decodes
         THEN Step("invalid msg", info, {})
         ELSE Step(NoErr, info, {m.hash})
    ELSE Step(NoErr, info, {})

queryCase(info, m) ==
    IF ProtocolVersion >= 4
    THEN IF ~m.decodes
         THEN Step("invalid msg", info, {})
         ELSE IF ~IsHexAddress(m.hash)
              THEN Step("invalid address", info, {})
              ELSE Step(NoErr, info, {m.hash})
    ELSE Step(NoErr, info, {})

statusCase(info, m) ==
    IF ~m.decodes
    THEN Step("invalid peer state", info, {})
    ELSE Step(NoErr, m.info, {})

msgCase(info, m) ==
    IF ProtocolVersion > 4
    THEN IF ~m.decodes
         THEN Step("invalid msg", info, {})
         ELSE Step(NoErr, info, {})
    ELSE Step(NoErr, info, {})

handlePacket(info, m) ==
    IF oversized(m)
    THEN Step("oversized message received", info, {})
    ELSE CASE m.code = StatusCode -> statusCase(info, m)
           [] m.code = QueryCode -> queryCase(info, m)
           [] m.code = MsgCode -> msgCase(info, m)
           [] OTHER -> Step("invalid code", info, {})

(***************************************************************************)
(* TorrentFS.HandlePeer, one call per session.                             *)
(*   idle -> registered -> loop -> deferred -> returned                    *)
(***************************************************************************)
MaxSessions == 1
Sessions == 1..MaxSessions
NodeIds == {"n1", "n2"}

IdleSession ==
    [pc |-> "idle", id |-> "", peerInfo |-> NoInfo, started |-> FALSE,
     err |-> NoErr, last |-> NoPacket, woke |-> {}]

RegistryPut(reg, id, s) == [k \in DOMAIN reg \cup {id} |-> IF k = id THEN s ELSE reg[k]]
RegistryDelete(reg, id) == [k \in DOMAIN reg \ {id} |-> reg[k]]

\* newPeer, then the locked registration.
PeerRegister(s, id) ==
    /\ sess[s].pc = "idle"
    /\ sess' = [sess EXCEPT ![s].pc = "registered", ![s].id = id]
    /\ peers' = RegistryPut(peers, id, s)
    /\ in' = in + 1
    /\ UNCHANGED out

\* A mutant: a failed handshake returns at once, the unregistration not
\* having been deferred yet.
PeerHandshake_lateDefer(s, ok, info) ==
    /\ sess[s].pc = "registered"
    /\ sess' = IF ok
               THEN [sess EXCEPT ![s].pc = "loop", ![s].peerInfo = info,
                                 ![s].started = TRUE]
               ELSE [sess EXCEPT ![s].pc = "returned", ![s].err = "handshake failed"]
    /\ UNCHANGED <<peers, in, out>>

\* A mutant: the timers are started and the loop is entered whatever the
\* handshake returned.
PeerHandshake_ignoresError(s, ok, info) ==
    /\ sess[s].pc = "registered"
    /\ sess' = IF ok
               THEN [sess EXCEPT ![s].pc = "loop", ![s].peerInfo = info,
                                 ![s].started = TRUE]
               ELSE [sess EXCEPT ![s].pc = "loop", ![s].err = "handshake failed",
                                 ![s].started = TRUE]
    /\ UNCHANGED <<peers, in, out>>

\* tfsPeer.handshake(); on success tfsPeer.start() and the message loop is
\* entered, on failure HandlePeer returns the error.
PeerHandshake(s, ok, info) ==
    /\ sess[s].pc = "registered"
    /\ sess' = IF ok
               THEN [sess EXCEPT ![s].pc = "loop", ![s].peerInfo = info,
                                 ![s].started = TRUE]
               ELSE [sess EXCEPT ![s].pc = "deferred", ![s].err = "handshake failed"]
    /\ UNCHANGED <<peers, in, out>>

\* rw.ReadMsg() returns packet m, which the loop handles.
PeerRead(s, m) ==
    /\ sess[s].pc = "loop"
    /\ LET r == handlePacket(sess[s].peerInfo, m)
       IN  /\ sess' = [sess EXCEPT ![s].pc = IF r.err = NoErr THEN "loop" ELSE "deferred",
                                   ![s].err = r.err,
                                   ![s].peerInfo = r.peerInfo,
                                   ![s].last = m,
                                   ![s].woke = r.wake]
           /\ searches' = searches \cup UNION {wakeup(ledger, ih) : ih \in r.wake}
    /\ UNCHANGED <<peers, in, out, ledger, torrents>>

\* rw.ReadMsg() returns an error: the connection failed or was closed.
PeerReadError(s) ==
    /\ sess[s].pc = "loop"
    /\ sess' = [sess EXCEPT ![s].pc = "deferred", ![s].err = "read error",
                            ![s].last = NoPacket, ![s].woke = {}]
    /\ UNCHANGED <<peers, in, out>>

\* HandlePeer's deferred calls: tfsPeer.stop() when the timers were started,
\* then the locked unregistration.
PeerReturn(s) ==
    /\ sess[s].pc = "deferred"
    /\ sess' = [sess EXCEPT ![s].pc = "returned", ![s].started = FALSE]
    /\ peers' = RegistryDelete(peers, sess[s].id)
    /\ out' = out + 1
    /\ UNCHANGED in

(***************************************************************************)
(* TorrentFS.Status: the state reported for the collaborator's three flags.*)
(***************************************************************************)
StateSeeding == 0
StatePending == 1
StateDownloading == 2
StateMissing == 3

Flags == [isPending : BOOLEAN, isDownloading : BOOLEAN, isSeeding : BOOLEAN]
NoFlags == [isPending |-> FALSE, isDownloading |-> FALSE, isSeeding |-> FALSE]

\* A mutant: the Downloading test comes before the Pending test.
Status_downloadingFirst(fl) ==
    IF fl.isDownloading THEN StateDownloading
    ELSE IF fl.isPending THEN StatePending
    ELSE IF fl.isSeeding THEN StateSeeding
    ELSE StateMissing

Status(fl) ==
    IF fl.isPending THEN StatePending
    ELSE IF fl.isDownloading THEN StateDownloading
    ELSE IF fl.isSeeding THEN StateSeeding
    ELSE StateMissing

NoStatusCall == [ih |-> <<>>]

\* A mutant: the answer to an earlier query for the same hash is reused.
StatusCall_cached(ih) ==
    /\ statusRes' = IF statusRes # NoStatusCall /\ statusRes.ih = ih
                    THEN [statusRes EXCEPT !.flags = torrents[ih]]
                    ELSE [ih |-> ih, flags |-> torrents[ih], ret |-> Status(torrents[ih])]
    /\ UNCHANGED torrents

\* One call of Status(ctx, ih).
StatusCall(ih) ==
    /\ statusRes' = [ih |-> ih, flags |-> torrents[ih], ret |-> Status(torrents[ih])]
    /\ UNCHANGED torrents

\* The swarm collaborator changes a torrent's flags.
SwarmChange(ih, fl) ==
    /\ torrents[ih] # fl
    /\ torrents' = [torrents EXCEPT ![ih] = fl]
    /\ UNCHANGED statusRes

(***************************************************************************)
(* Goroutines in flight.  A wakeup task is counted by fs.wg, an encounter  *)
(* task is not.                                                            *)
(***************************************************************************)
WakeupTask(ih) == [kind |-> "wakeup", ih |-> ih]
EncounterTask(ih) == [kind |-> "encounter", ih |-> ih]

Spawn(bag, t) == bag (+) SetToBag({t})
Finish(bag, t) == bag (-) SetToBag({t})

\* The goroutine of GetFileWithSize: fs.wakeup(ctx, ih), then fs.wg.Done().
RunWakeup(t) ==
    /\ BagIn(t, tasks) /\ t.kind = "wakeup"
    /\ searches' = searches \cup wakeup(ledger, t.ih)
    /\ tasks' = Finish(tasks, t)
    /\ wg' = wg - 1
    /\ UNCHANGED <<ledger, torrents>>

\* TorrentFS.encounter
RunEncounter(t) ==
    /\ BagIn(t, tasks) /\ t.kind = "encounter"
    /\ worm' = IF t.ih \notin worm THEN worm \cup {t.ih} ELSE worm
    /\ tasks' = Finish(tasks, t)
    /\ UNCHANGED wg

(***************************************************************************)
(* encounter at the grain of its two calls on the seen-set, which is a     *)
(* mapset.Set: Contains, then Add when the hash was not found.  AddTask is *)
(* a goroutine between the two.                                            *)
(***************************************************************************)
AddTask(ih) == [kind |-> "add", ih |-> ih]

\* mapset.Set.Add: adding a member already present leaves the set as it is.
WormAdd(set, ih) == set \cup {ih}

\* fs.worm.Contains(ih)
EncounterContains(t) ==
    /\ BagIn(t, tasks) /\ t.kind = "encounter"
    /\ tasks' = IF t.ih \in worm
                THEN Finish(tasks, t)
                ELSE Spawn(Finish(tasks, t), AddTask(t.ih))
    /\ UNCHANGED <<worm, wg>>

\* A mutant: the set is rebuilt from the hash added.
EncounterAdd_rebuilds(t) ==
    /\ BagIn(t, tasks) /\ t.kind = "add"
    /\ worm' = {t.ih}
    /\ tasks' = Finish(tasks, t)
    /\ UNCHANGED wg

\* fs.worm.Add(ih)
EncounterAdd(t) ==
    /\ BagIn(t, tasks) /\ t.kind = "add"
    /\ worm' = WormAdd(worm, t.ih)
    /\ tasks' = Finish(tasks, t)
    /\ UNCHANGED wg

(***************************************************************************)
(* TorrentFS.GetFileWithSize.  A result of the collaborator's GetFile is   *)
(* an error or bytes of some length; bytes are modelled by their length,   *)
(* as a set that is empty for nil.                                         *)
(***************************************************************************)
MaxLen == 3     \* GetFile returns at most MaxLen bytes
MaxGets == 1    \* GetFileWithSize calls

GetCalls == 1..MaxGets
GoodHashes == {HashAB}
IsGood(ih) == ih \in GoodHashes

GetFileResults == [err : {TRUE}, len : {0}] \cup [err : {FALSE}, len : 0..MaxLen]
NoResult == [err |-> TRUE, len |-> 0]

Return(bytes, err) == [bytes |-> bytes, err |-> err]
NoReturn == Return({}, "none")

IdleGet ==
    [pc |-> "idle", ih |-> <<>>, rawSize |-> 0, got |-> NoResult,
     path |-> "none", ret |-> NoReturn]

\* A mutant: the size check of the poll loop is missing.
pollHit_noCheck(res, rawSize) == Return({res.len}, "nil")

\* The poll loop's GetFile succeeded.
pollHit(res, rawSize) ==
    IF res.len > rawSize
    THEN Return({}, "ErrInvalidRawSize")
    ELSE Return({res.len}, "nil")

\* The first GetFile succeeded.
directHit(res, rawSize) ==
    IF res.len > rawSize
    THEN Return({}, "ErrInvalidRawSize")
    ELSE Return({res.len}, "nil")

\* A mutant: the poll loop is entered for every hash, good or not.
GetFileWithSize_pollsAll(c, ih, rawSize, res) ==
    /\ gets[c].pc = "idle"
    /\ IF res.err
       THEN /\ wg' = wg + 1
            /\ tasks' = Spawn(tasks, WakeupTask(ih))
            /\ gets' = [gets EXCEPT ![c] =
                    [pc |-> "poll", ih |-> ih, rawSize |-> rawSize, got |-> res,
                     path |-> "poll", ret |-> NoReturn]]
       ELSE /\ wg' = wg
            /\ tasks' = IF res.len <= rawSize /\ ~IsGood(ih)
                        THEN Spawn(tasks, EncounterTask(ih))
                        ELSE tasks
            /\ gets' = [gets EXCEPT ![c] =
                    [pc |-> "done", ih |-> ih, rawSize |-> rawSize, got |-> res,
                     path |-> "direct", ret |-> directHit(res, rawSize)]]
    /\ UNCHANGED worm

\* The call starts: the first GetFile returns res.
GetFileWithSize(c, ih, rawSize, res) ==
    /\ gets[c].pc = "idle"
    /\ IF res.err
       THEN /\ wg' = wg + 1
            /\ tasks' = Spawn(tasks, WakeupTask(ih))
            /\ gets' = [gets EXCEPT ![c] =
                    IF IsGood(ih)
                    THEN [pc |-> "poll", ih |-> ih, rawSize |-> rawSize, got |-> res,
                          path |-> "poll", ret |-> NoReturn]
                    ELSE [pc |-> "done", ih |-> ih, rawSize |-> rawSize, got |-> res,
                          path |-> "miss", ret |-> Return({}, "GetFile error")]]
       ELSE /\ wg' = wg
            /\ tasks' = IF res.len <= rawSize /\ ~IsGood(ih)
                        THEN Spawn(tasks, EncounterTask(ih))
                        ELSE tasks
            /\ gets' = [gets EXCEPT ![c] =
                    [pc |-> "done", ih |-> ih, rawSize |-> rawSize, got |-> res,
                     path |-> "direct", ret |-> directHit(res, rawSize)]]
    /\ UNCHANGED worm

\* The poll timer fires: GetFile returns res; on an error the timer is reset.
GetPoll(c, res) ==
    /\ gets[c].pc = "poll"
    /\ gets' = [gets EXCEPT ![c].got = res,
                            ![c].pc = IF res.err THEN "poll" ELSE "done",
                            ![c].ret = IF res.err THEN NoReturn
                                       ELSE pollHit(res, gets[c].rawSize)]
    /\ UNCHANGED <<worm, tasks, wg>>

\* The caller's context ends while the call polls.
GetCtxDone(c) ==
    /\ gets[c].pc = "poll"
    /\ gets' = [gets EXCEPT ![c].pc = "done", ![c].ret = Return({}, "ctx.Err")]
    /\ UNCHANGED <<worm, tasks, wg>>

\* The caller has its result; the next call of GetFileWithSize is made.
GetNext(c) ==
    /\ gets[c].pc = "done"
    /\ gets' = [gets EXCEPT ![c] = IdleGet]
    /\ UNCHANGED <<worm, tasks, wg>>

(***************************************************************************)
(* The scheduler side: the intake channel, the deferred queue, the loop of *)
(* listen, download and the broadcast goroutines it spawns, and Stop.      *)
(***************************************************************************)
CallbackCap == 1
TtlchanCap == 2
MaxTasks == 2
MaxStops == 1
StopCalls == 1..MaxStops

\* types.NewBitsFlow(ih, size)
BitsFlow(ih, request) == [ih |-> ih, request |-> request]

\* ChainDB.SetTorrentProgress: the size tracked for a hash only grows; the
\* second result is the size tracked after the call.
SetTorrentProgress(led, ih, request) ==
    LET cur == IF ih \in DOMAIN led THEN led[ih] ELSE 0
        p == IF cur >= request THEN cur ELSE request
    IN  [p |-> p,
         ledger |-> [k \in DOMAIN led \cup {ih} |-> IF k = ih THEN p ELSE led[k]]]

BroadcastTask(ih, p) == [kind |-> "broadcast", ih |-> ih, p |-> p]

\* A mutant: the local search is made only when a broadcast is attempted.
download_searchIfMissing(led, ih, request, dbErr, exist, searchErr) ==
    LET key == ToLower(ih)
        m == SetTorrentProgress(led, key, request)
    IN  IF dbErr
        THEN [err |-> "db error", ledger |-> led, spawn |-> {}, search |-> {}]
        ELSE [err |-> IF searchErr /\ ~exist THEN "search error" ELSE NoErr,
              ledger |-> m.ledger,
              spawn |-> IF ~exist THEN {BroadcastTask(key, m.p)} ELSE {},
              search |-> IF ~exist THEN {[ih |-> key, size |-> m.p]} ELSE {}]

\* A mutant: the ledger's error is dropped and the call goes on with the
\* requested size.
download_ignoresLedgerError(led, ih, request, dbErr, exist, searchErr) ==
    LET key == ToLower(ih)
        m == SetTorrentProgress(led, key, request)
        p == IF dbErr THEN request ELSE m.p
    IN  [err |-> IF searchErr THEN "search error" ELSE NoErr,
         ledger |-> IF dbErr THEN led ELSE m.ledger,
         spawn |-> IF ~exist THEN {BroadcastTask(key, p)} ELSE {},
         search |-> {[ih |-> key, size |-> p]}]

\* TorrentFS.download.  dbErr: SetTorrentProgress fails; exist: the answer of
\* the collaborator's Exists; searchErr: Search fails.  The result names the
\* ledger after the call, the goroutine spawned and the Search issued.
download(led, ih, request, dbErr, exist, searchErr) ==
    LET key == ToLower(ih)
        m == SetTorrentProgress(led, key, request)
    IN  IF dbErr
        THEN [err |-> "db error", ledger |-> led, spawn |-> {}, search |-> {}]
        ELSE [err |-> IF searchErr THEN "search error" ELSE NoErr,
              ledger |-> m.ledger,
              spawn |-> IF ~exist THEN {BroadcastTask(key, m.p)} ELSE {},
              search |-> {[ih |-> key, size |-> m.p]}]

\* TorrentFS.Download -> bitsflow: the send on fs.callback, taken when the
\* channel has room.
Download(ih, request) ==
    /\ Len(callback) < CallbackCap
    /\ callback' = Append(callback, BitsFlow(ih, request))
    /\ UNCHANGED <<ttlchan, listen, closeAll, once, closed, stops>>

ListenSelect == [pc |-> "select", held |-> <<>>]
ListenExited == [pc |-> "exited", held |-> <<>>]

\* The call of fs.download made by the loop, with whatever answers the
\* ledger and the swarm collaborator give; its result is dropped.
Fetch(meta) ==
    \E dbErr \in BOOLEAN, exist \in BOOLEAN, searchErr \in BOOLEAN :
       LET d == download(ledger, meta.ih, meta.request, dbErr, exist, searchErr)
       IN  /\ d.spawn = {} \/ BagCardinality(tasks) < MaxTasks
           /\ ledger' = d.ledger
           /\ searches' = searches \cup d.search
           /\ tasks' = tasks (+) SetToBag(d.spawn)
           /\ wg' = wg + Cardinality(d.spawn)
           /\ UNCHANGED torrents

\* A mutant: every event is fetched on receipt.
immediate_always(meta) == TRUE

\* A mutant: only the good predicate makes a fetch immediate.
immediate_goodOnly(meta) == IsGood(meta.ih)

\* listen's test on a received event: fetch now, or defer.
immediate(meta) == meta.request > 0 \/ IsGood(meta.ih)

\* listen, case msg := <-fs.callback.  The send on fs.ttlchan blocks when the
\* queue is full; the loop is its only receiver, so a blocked send stays
\* blocked.
ListenEvent ==
    /\ listen.pc = "select"
    /\ callback # <<>>
    /\ callback' = Tail(callback)
    /\ LET meta == Head(callback)
       IN  IF immediate(meta)
           THEN /\ Fetch(meta)
                /\ UNCHANGED <<ttlchan, listen>>
           ELSE /\ IF Len(ttlchan) < TtlchanCap
                   THEN ttlchan' = Append(ttlchan, meta) /\ listen' = listen
                   ELSE ttlchan' = ttlchan
                        /\ listen' = [pc |-> "sending", held |-> <<meta>>]
                /\ UNCHANGED <<ledger, searches, torrents, tasks, wg>>
    /\ UNCHANGED <<closeAll, once, closed, stops>>

\* listen, case <-ttl.C
ListenTtl ==
    /\ listen.pc = "select"
    /\ IF Len(ttlchan) > 0
       THEN /\ ttlchan' = Tail(ttlchan)
            /\ Fetch(Head(ttlchan))
       ELSE UNCHANGED <<ttlchan, ledger, searches, torrents, tasks, wg>>
    /\ UNCHANGED <<callback, listen, closeAll, once, closed, stops>>

\* listen, case <-ticker.C: a log line
ListenTicker ==
    /\ listen.pc = "select"
    /\ UNCHANGED <<stopVars, collabVars, taskVars>>

\* listen, case <-fs.closeAll, and the deferred fs.wg.Done()
ListenClose ==
    /\ listen.pc = "select"
    /\ closeAll
    /\ listen' = ListenExited
    /\ wg' = wg - 1
    /\ UNCHANGED <<callback, ttlchan, closeAll, once, closed, stops>>
    /\ UNCHANGED <<collabVars, tasks>>

\* The goroutine of download: fs.broadcast(ih, p), then fs.wg.Done().
RunBroadcast(t) ==
    /\ BagIn(t, tasks) /\ t.kind = "broadcast"
    /\ tunnel' = broadcast(tunnel, t.ih, t.p, now).tunnel
    /\ tasks' = Finish(tasks, t)
    /\ wg' = wg - 1
    /\ UNCHANGED <<now, bcLog>>

(***************************************************************************)
(* TorrentFS.Stop, one step per statement.  Of a call, looping is the set   *)
(* of sessions inside their message loop when it began, inflight the       *)
(* number of goroutines running when it began, drained the number of       *)
(* entries its Drain removed, ret what it returned.  closed counts, per     *)
(* collaborator and for the channel closeAll (signal), the releases made;  *)
(* closing a closed channel would panic.                                   *)
(***************************************************************************)
IdleStop ==
    [pc |-> "idle", looping |-> {}, inflight |-> 0, drained |-> 0, ret |-> "none"]
NotClosed == [handler |-> 0, db |-> 0, monitor |-> 0, signal |-> 0]

StopAt(c, pc) == stops' = [stops EXCEPT ![c].pc = pc]

\* A mutant: every caller runs the body.
StopEnter_noOnce(c) ==
    /\ stops[c].pc = "idle"
    /\ once' = once
    /\ stops' = [stops EXCEPT
                   ![c].pc = "closeHandler",
                   ![c].looping = {s \in Sessions : sess[s].pc = "loop"},
                   ![c].inflight = BagCardinality(tasks)]
    /\ UNCHANGED <<callback, ttlchan, listen, closeAll, closed>>

\* tfs.once.Do: the first caller runs the body; a caller arriving while the
\* body runs waits for it; a later caller skips it.
StopEnter(c) ==
    /\ stops[c].pc = "idle"
    /\ once # "running"
    /\ once' = IF once = "fresh" THEN "running" ELSE once
    /\ stops' = [stops EXCEPT
                   ![c].pc = IF once = "fresh" THEN "closeHandler" ELSE "wait",
                   ![c].looping = {s \in Sessions : sess[s].pc = "loop"},
                   ![c].inflight = BagCardinality(tasks)]
    /\ UNCHANGED <<callback, ttlchan, listen, closeAll, closed>>

\* tfs.handler.Close()
StopCloseHandler(c) ==
    /\ stops[c].pc = "closeHandler"
    /\ closed' = [closed EXCEPT !.handler = @ + 1]
    /\ StopAt(c, "closeDb")
    /\ UNCHANGED <<callback, ttlchan, listen, closeAll, once>>

\* tfs.db.Close()
StopCloseDb(c) ==
    /\ stops[c].pc = "closeDb"
    /\ closed' = [closed EXCEPT !.db = @ + 1]
    /\ StopAt(c, "stopMonitor")
    /\ UNCHANGED <<callback, ttlchan, listen, closeAll, once>>

\* tfs.monitor.Stop()
StopMonitor(c) ==
    /\ stops[c].pc = "stopMonitor"
    /\ closed' = [closed EXCEPT !.monitor = @ + 1]
    /\ StopAt(c, "closeAll")
    /\ UNCHANGED <<callback, ttlchan, listen, closeAll, once>>

\* close(tfs.closeAll), the end of the body of once.Do
StopCloseAll(c) ==
    /\ stops[c].pc = "closeAll"
    /\ closeAll' = TRUE
    /\ closed' = [closed EXCEPT !.signal = @ + 1]
    /\ once' = "done"
    /\ StopAt(c, "wait")
    /\ UNCHANGED <<callback, ttlchan, listen>>

\* tfs.wg.Wait()
StopWait(c) ==
    /\ stops[c].pc = "wait"
    /\ wg = 0
    /\ StopAt(c, "drain")
    /\ UNCHANGED <<callback, ttlchan, listen, closeAll, once, closed>>

\* A mutant: Stop returns without draining the tunnel.
StopDrain_noDrain(c) ==
    /\ stops[c].pc = "drain"
    /\ tunnel' = tunnel
    /\ stops' = [stops EXCEPT ![c].pc = "returned",
                              ![c].drained = TunnelLen(tunnel),
                              ![c].ret = NoErr]
    /\ UNCHANGED <<callback, ttlchan, listen, closeAll, once, closed>>

\* tfs.tunnel.Drain(), then return nil
StopDrain(c) ==
    /\ stops[c].pc = "drain"
    /\ tunnel' = TunnelDrain(tunnel)
    /\ stops' = [stops EXCEPT ![c].pc = "returned",
                              ![c].drained = TunnelLen(tunnel),
                              ![c].ret = NoErr]
    /\ UNCHANGED <<callback, ttlchan, listen, closeAll, once, closed>>

\* The state New leaves: the loop started and waiting in its select.
InitStop ==
    /\ callback = <<>>
    /\ ttlchan = <<>>
    /\ listen = ListenSelect
    /\ closeAll = FALSE
    /\ once = "fresh"
    /\ closed = NotClosed
    /\ stops = [c \in StopCalls |-> IdleStop]

(***************************************************************************)
(* The registry lock.  HandlePeer in steps: Lock, then the write and the   *)
(* Unlock, at registration and again in the deferred unregistration.       *)
(* PeerInfo reads the map between RLock and RUnlock.  Neighbors asks the   *)
(* server when fs.net is set and otherwise reads len(fs.peers), taking no  *)
(* lock; a read that overlaps a write may return any count.                *)
(***************************************************************************)
MaxCallers == 1
Callers == 1..MaxCallers
FreeMu == [writer |-> {}, readers |-> {}]
IdleCaller == [kind |-> "none", pc |-> "idle", ret |-> 0]
Counts == 0..MaxSessions

\* newPeer; fs.peerMu.Lock()
RegisterLock(s, id) ==
    /\ sess[s].pc = "idle"
    /\ peerMu = FreeMu
    /\ peerMu' = [peerMu EXCEPT !.writer = {s}]
    /\ sess' = [sess EXCEPT ![s].pc = "registering", ![s].id = id]
    /\ UNCHANGED <<peers, in, out, callers, net>>

\* fs.peers[tfsPeer.id] = tfsPeer; fs.in++; fs.peerMu.Unlock()
RegisterUnlock(s) ==
    /\ sess[s].pc = "registering"
    /\ peers' = RegistryPut(peers, sess[s].id, s)
    /\ in' = in + 1
    /\ peerMu' = [peerMu EXCEPT !.writer = {}]
    /\ sess' = [sess EXCEPT ![s].pc = "registered"]
    /\ UNCHANGED <<out, callers, net>>

\* The deferred calls: tfsPeer.stop() when the timers were started, then
\* fs.peerMu.Lock()
UnregisterLock(s) ==
    /\ sess[s].pc = "deferred"
    /\ peerMu = FreeMu
    /\ peerMu' = [peerMu EXCEPT !.writer = {s}]
    /\ sess' = [sess EXCEPT ![s].pc = "unregistering", ![s].started = FALSE]
    /\ UNCHANGED <<peers, in, out, callers, net>>

\* delete(fs.peers, tfsPeer.id); fs.out++; fs.peerMu.Unlock(); return
UnregisterUnlock(s) ==
    /\ sess[s].pc = "unregistering"
    /\ peers' = RegistryDelete(peers, sess[s].id)
    /\ out' = out + 1
    /\ peerMu' = [peerMu EXCEPT !.writer = {}]
    /\ sess' = [sess EXCEPT ![s].pc = "returned"]
    /\ UNCHANGED <<in, callers, net>>

\* PeerInfo: inst.peerMu.RLock()
PeerInfoRLock(c) ==
    /\ callers[c].pc = "idle"
    /\ peerMu.writer = {}
    /\ peerMu' = [peerMu EXCEPT !.readers = @ \cup {c}]
    /\ callers' = [callers EXCEPT ![c].kind = "PeerInfo", ![c].pc = "reading"]
    /\ UNCHANGED <<peers, in, out, sess, net>>

\* PeerInfo: the lookup inst.peers[...], the deferred RUnlock, return; the
\* result is kept as the number of entries found.
PeerInfoReturn(c, id) ==
    /\ callers[c].kind = "PeerInfo" /\ callers[c].pc = "reading"
    /\ peerMu' = [peerMu EXCEPT !.readers = @ \ {c}]
    /\ callers' = [callers EXCEPT ![c].pc = "done",
                                  ![c].ret = IF id \in DOMAIN peers THEN 1 ELSE 0]
    /\ UNCHANGED <<peers, in, out, sess, net>>

\* Neighbors: with fs.net set, return fs.net.PeerCount(), whatever the
\* server counts; otherwise begin reading len(fs.peers).
NeighborsCall(c, count) ==
    /\ callers[c].pc = "idle"
    /\ callers' = IF net
                  THEN [callers EXCEPT ![c].kind = "Neighbors", ![c].pc = "done",
                                       ![c].ret = count]
                  ELSE [callers EXCEPT ![c].kind = "Neighbors", ![c].pc = "reading"]
    /\ UNCHANGED <<peers, in, out, sess, peerMu, net>>

\* Neighbors: return len(fs.peers).  While a session is inside its locked
\* write the read races with it and may return any count.
NeighborsReturn(c, count) ==
    /\ callers[c].kind = "Neighbors" /\ callers[c].pc = "reading"
    /\ peerMu.writer = {} => count = Cardinality(DOMAIN peers)
    /\ callers' = [callers EXCEPT ![c].pc = "done", ![c].ret = count]
    /\ UNCHANGED <<peers, in, out, sess, peerMu, net>>

InitLock ==
    /\ peerMu = FreeMu
    /\ callers = [c \in Callers |-> IdleCaller]
    /\ net = FALSE

(***************************************************************************)
(* The connection of a session: the remote peer writes packets, which      *)
(* rw.ReadMsg hands to the message loop one at a time, oldest first.       *)
(***************************************************************************)
MaxWire == 3

\* The remote peer writes packet m.
PeerSend(s, m) ==
    /\ Len(wire[s]) + Len(handled[s]) < MaxWire
    /\ wire' = [wire EXCEPT ![s] = Append(@, m)]
    /\ UNCHANGED handled

\* A mutant: the loop goes on after a packet it rejected.
PeerReadNext_goesOn(s) ==
    /\ wire[s] # <<>>
    /\ sess[s].pc = "loop"
    /\ LET m == Head(wire[s])
           r == handlePacket(sess[s].peerInfo, m)
       IN  /\ sess' = [sess EXCEPT ![s].err = r.err,
                                   ![s].peerInfo = r.peerInfo,
                                   ![s].last = m,
                                   ![s].woke = r.wake]
           /\ searches' = searches \cup UNION {wakeup(ledger, ih) : ih \in r.wake}
    /\ wire' = [wire EXCEPT ![s] = Tail(@)]
    /\ handled' = [handled EXCEPT ![s] = Append(@, Head(wire[s]))]
    /\ UNCHANGED <<peers, in, out, ledger, torrents>>

\* One iteration of runMessageLoop on the oldest unread packet.
PeerReadNext(s) ==
    /\ wire[s] # <<>>
    /\ PeerRead(s, Head(wire[s]))
    /\ wire' = [wire EXCEPT ![s] = Tail(@)]
    /\ handled' = [handled EXCEPT ![s] = Append(@, Head(wire[s]))]

InitConn ==
    /\ wire = [s \in Sessions |-> <<>>]
    /\ handled = [s \in Sessions |-> <<>>]

(***************************************************************************)
(* A call of TorrentFS.download seen from its caller: the arguments, the   *)
(* answers of the ledger and of the swarm collaborator, the size the       *)
(* ledger tracked before the call, and what the call did and returned.     *)
(***************************************************************************)
Tracked(led, ih) == IF ih \in DOMAIN led THEN led[ih] ELSE 0

DownloadCall(ih, request, dbErr, exist, searchErr) ==
    LET d == download(ledger, ih, request, dbErr, exist, searchErr)
    IN  /\ d.spawn = {} \/ BagCardinality(tasks) < MaxTasks
        /\ ledger' = d.ledger
        /\ searches' = searches \cup d.search
        /\ tasks' = tasks (+) SetToBag(d.spawn)
        /\ wg' = wg + Cardinality(d.spawn)
        /\ fetched' = <<[ih |-> ih, request |-> request, dbErr |-> dbErr,
                         exist |-> exist, searchErr |-> searchErr,
                         prior |-> Tracked(ledger, ToLower(ih)), result |-> d]>>
        /\ UNCHANGED torrents

\* The goroutine of download at the grain of its calls on the tunnel:
\* fs.tunnel.Get and fs.tunnel.Set are two calls, and goroutines of several
\* download calls run between them.  SetTask is a goroutine that has passed
\* the test and not yet called Set.
SetTask(ih, p) == [kind |-> "set", ih |-> ih, p |-> p]

\* common.IsHexAddress and fs.tunnel.Get with the size test; a goroutine
\* that fails either returns false, and its deferred fs.wg.Done() runs.
BroadcastGet(t) ==
    /\ BagIn(t, tasks) /\ t.kind = "broadcast"
    /\ IF \/ ~IsHexAddress(t.ih)
          \/ (~TunnelGet(tunnel, t.ih, now).err /\ TunnelGet(tunnel, t.ih, now).value >= t.p)
       THEN /\ tasks' = Finish(tasks, t)
            /\ wg' = wg - 1
       ELSE /\ tasks' = Spawn(Finish(tasks, t), SetTask(t.ih, t.p))
            /\ wg' = wg
    /\ UNCHANGED <<tunnel, now, bcLog>>

\* fs.tunnel.Set, return true, and the deferred fs.wg.Done().
BroadcastSet(t) ==
    /\ BagIn(t, tasks) /\ t.kind = "set"
    /\ tunnel' = TunnelSet(tunnel, t.ih, t.p, now + TTL)
    /\ tasks' = Finish(tasks, t)
    /\ wg' = wg - 1
    /\ UNCHANGED <<now, bcLog>>

InitFetch == fetched = <<>>

(***************************************************************************)
(* New and the package variables inst and mut.  An instance is named by    *)
(* the order of its construction; a call returns an instance, or no        *)
(* instance and an error.                                                  *)
(***************************************************************************)
MaxNews == 3
NewCalls == 1..MaxNews
NewErrors == {"NewChainDB error", "manager error", "monitor error"}

NilInst == {}
IdleNew == [pc |-> "idle", ret |-> [inst |-> NilInst, err |-> "none"]]
ListenNotStarted == [pc |-> "none", held |-> <<>>]

\* A mutant: New does not take the mutex.
NewLock_noMutex(c) ==
    /\ news[c].pc = "idle"
    /\ mut' = mut \cup {c}
    /\ news' = [news EXCEPT ![c].pc = "check"]
    /\ UNCHANGED <<inst, built>>

\* mut.Lock()
NewLock(c) ==
    /\ news[c].pc = "idle"
    /\ mut = {}
    /\ mut' = {c}
    /\ news' = [news EXCEPT ![c].pc = "check"]
    /\ UNCHANGED <<inst, built>>

\* if inst != nil { return inst, nil }
NewCheck(c) ==
    /\ news[c].pc = "check"
    /\ news' = [news EXCEPT ![c] =
            IF inst # NilInst
            THEN [pc |-> "unlock", ret |-> [inst |-> inst, err |-> NoErr]]
            ELSE [pc |-> "build", ret |-> @.ret]]
    /\ UNCHANGED <<inst, mut, built>>

\* The rest of New.  failure holds the error of the collaborator that could
\* not be created (NewChainDB, NewTorrentManager, monitor.New), or nothing;
\* on success inst is assigned, the wait group counts the loop and the loop
\* is started.
NewBuild(c, failure) ==
    /\ news[c].pc = "build"
    /\ IF failure # {}
       THEN /\ news' = [news EXCEPT ![c] =
                   [pc |-> "unlock",
                    ret |-> [inst |-> NilInst, err |-> CHOOSE e \in failure : TRUE]]]
            /\ UNCHANGED <<inst, built, wg, listen>>
       ELSE /\ inst' = {built + 1}
            /\ built' = built + 1
            /\ wg' = wg + 1
            /\ listen' = ListenSelect
            /\ news' = [news EXCEPT ![c] =
                   [pc |-> "unlock", ret |-> [inst |-> {built + 1}, err |-> NoErr]]]
    /\ UNCHANGED mut

\* The deferred mut.Unlock(), and the return.
NewUnlock(c) ==
    /\ news[c].pc = "unlock"
    /\ mut' = mut \ {c}
    /\ news' = [news EXCEPT ![c].pc = "done"]
    /\ UNCHANGED <<inst, built>>

\* The state once New has returned the instance the other actions run on.
InitNew ==
    /\ inst = {1}
    /\ mut = {}
    /\ news = [c \in NewCalls |-> IdleNew]
    /\ built = 1

(***************************************************************************)
(* TorrentFS.SeedingLocal, one action per numbered step of its body.  The  *)
(* file system, the metainfo library and the copy library answer each step *)
(* with success or an error.  The folder seeded has the info hash HashAB.  *)
(***************************************************************************)
ErrExist == "os.ErrExist"

IdleSeed ==
    [pc |-> "idle", isLinkMode |-> FALSE, fileMode |-> FALSE, err |-> NoErr,
     infoHash |-> <<>>, searched |-> FALSE, registered |-> FALSE]

\* return: the named results err and infoHash go to the caller.
SeedReturn(sd, err) == [sd EXCEPT !.pc = "returned", !.err = err]

\* The call is made.
SeedingLocal(isLinkMode) ==
    /\ seed.pc = "idle"
    /\ seed' = [IdleSeed EXCEPT !.pc = "folder", !.isLinkMode = isLinkMode]
    /\ UNCHANGED <<localSeeds, searches>>

\* 1. check folder exist
SeedCheckFolder(ok) ==
    /\ seed.pc = "folder"
    /\ seed' = IF ok THEN [seed EXCEPT !.pc = "data"] ELSE SeedReturn(seed, "stat error")
    /\ UNCHANGED <<localSeeds, searches>>

\* 2. check subfile data exist and not empty.  found: "data" when
\* filePath/data exists, "path" when only filePath does (file mode), "none"
\* when neither; valid: iterateForValidFile's answer.
SeedCheckData(found, valid) ==
    /\ seed.pc = "data"
    /\ seed' = IF found = "none" THEN SeedReturn(seed, "stat error")
               ELSE IF ~valid
                    THEN SeedReturn([seed EXCEPT !.fileMode = (found = "path")],
                                    "Empty Seeding Data")
                    ELSE [seed EXCEPT !.pc = "torrent", !.fileMode = (found = "path")]
    /\ UNCHANGED <<localSeeds, searches>>

\* 3. generate torrent file: BuildFromFilePath, bencode.Marshal, os.OpenFile
\* and mi.Write, each returning on its error.
TorrentFileErrors == {"build error", "marshal error", "open error", "write error"}

SeedTorrentFile(failure) ==
    /\ seed.pc = "torrent"
    /\ seed' = IF failure # {}
               THEN SeedReturn(seed, CHOOSE e \in failure : TRUE)
               ELSE [seed EXCEPT !.pc = "place"]
    /\ UNCHANGED <<localSeeds, searches>>

\* 4. copy or link.  The info hash is set first.  outcome is the answer of
\* the copy, of the mkdir and copies of file mode, or of the link.
PlaceOutcomes == {NoErr, ErrExist, "copy error", "mkdir error", "link error"}

SeedPlace(outcome) ==
    /\ seed.pc = "place"
    /\ LET sd == [seed EXCEPT !.infoHash = HashAB]
       IN  seed' =
             IF ~seed.isLinkMode
             THEN IF ~seed.fileMode
                  THEN [sd EXCEPT !.pc = "seeding", !.err = outcome]
                  ELSE IF outcome # NoErr
                       THEN SeedReturn(sd, outcome)
                       ELSE [sd EXCEPT !.pc = "seeding", !.err = NoErr]
             ELSE IF seed.fileMode
                  THEN SeedReturn(sd, seed.err)
                  ELSE [sd EXCEPT !.pc = "seeding", !.err = outcome]
    /\ UNCHANGED <<localSeeds, searches>>

\* 5. seeding: Search(ih.Hex(), 0) when the error so far is nil or
\* already-exists, AddLocalSeedFile(infoHash) when the search succeeded.
SeedSeeding(searchErr) ==
    /\ seed.pc = "seeding"
    /\ IF seed.err \in {NoErr, ErrExist}
       THEN /\ searches' = searches \cup {[ih |-> Hash0xAB, size |-> 0]}
            /\ localSeeds' = IF searchErr THEN localSeeds
                             ELSE localSeeds \cup {seed.infoHash}
            /\ seed' = [seed EXCEPT !.pc = "returned",
                                    !.err = IF searchErr THEN "search error" ELSE NoErr,
                                    !.searched = TRUE,
                                    !.registered = ~searchErr]
       ELSE /\ seed' = SeedReturn(seed, seed.err)
            /\ UNCHANGED <<localSeeds, searches>>

\* The caller has its result; the next call of SeedingLocal is made.
SeedNext ==
    /\ seed.pc = "returned"
    /\ seed' = IdleSeed
    /\ UNCHANGED <<localSeeds, searches>>

InitSeed ==
    /\ seed = IdleSeed
    /\ localSeeds = {}

(***************************************************************************)
(* rpc.Server: ServeCodec with trackCodec and untrackCodec, and Stop.  One *)
(* ServeCodec call per codec.  late records whether Stop had already run   *)
(* when the call began, served whether the call went on to initClient.     *)
(***************************************************************************)
MaxCodecs == 2
Codecs == 1..MaxCodecs

IdleServe == [pc |-> "idle", late |-> FALSE, served |-> FALSE]
ServeHolds(c) == [who |-> "ServeCodec", codec |-> c]
StopHolds == [who |-> "Stop", codec |-> 0]

\* The call is made; its first statement defers codec.close().
ServeCodec(c) ==
    /\ serves[c].pc = "idle"
    /\ serves' = [serves EXCEPT ![c] = [pc |-> "lock", late |-> ~run, served |-> FALSE]]
    /\ UNCHANGED <<run, codecs, rpcMu, codecClosed, rpcStop>>

\* A mutant: trackCodec does not take the mutex.
TrackLock_noMutex(c) ==
    /\ serves[c].pc = "lock"
    /\ rpcMu' = rpcMu \cup {ServeHolds(c)}
    /\ serves' = [serves EXCEPT ![c].pc = "check"]
    /\ UNCHANGED <<run, codecs, codecClosed, rpcStop>>

\* trackCodec: s.mutex.Lock()
TrackLock(c) ==
    /\ serves[c].pc = "lock"
    /\ rpcMu = {}
    /\ rpcMu' = {ServeHolds(c)}
    /\ serves' = [serves EXCEPT ![c].pc = "check"]
    /\ UNCHANGED <<run, codecs, codecClosed, rpcStop>>

\* trackCodec: if !s.run.Load() { return false }, with the deferred Unlock;
\* ServeCodec then returns.
TrackCheck(c) ==
    /\ serves[c].pc = "check"
    /\ IF run
       THEN /\ serves' = [serves EXCEPT ![c].pc = "add"]
            /\ UNCHANGED rpcMu
       ELSE /\ serves' = [serves EXCEPT ![c].pc = "close"]
            /\ rpcMu' = rpcMu \ {ServeHolds(c)}
    /\ UNCHANGED <<run, codecs, codecClosed, rpcStop>>

\* trackCodec: s.codecs[codec] = struct{}{}, return true with the deferred
\* Unlock; ServeCodec defers untrackCodec and calls initClient.
TrackAdd(c) ==
    /\ serves[c].pc = "add"
    /\ codecs' = codecs \cup {c}
    /\ rpcMu' = rpcMu \ {ServeHolds(c)}
    /\ serves' = [serves EXCEPT ![c].pc = "serving", ![c].served = TRUE]
    /\ UNCHANGED <<run, codecClosed, rpcStop>>

\* The remote end closes the connection of a codec being served.
RemoteClose(c) ==
    /\ serves[c].pc = "serving"
    /\ ~codecClosed[c]
    /\ codecClosed' = [codecClosed EXCEPT ![c] = TRUE]
    /\ UNCHANGED <<run, codecs, rpcMu, serves, rpcStop>>

\* <-codec.closed() returns; c.Close().
ServeWake(c) ==
    /\ serves[c].pc = "serving"
    /\ codecClosed[c]
    /\ serves' = [serves EXCEPT ![c].pc = "untrack"]
    /\ UNCHANGED <<run, codecs, rpcMu, codecClosed, rpcStop>>

\* untrackCodec: s.mutex.Lock()
UntrackLock(c) ==
    /\ serves[c].pc = "untrack"
    /\ rpcMu = {}
    /\ rpcMu' = {ServeHolds(c)}
    /\ serves' = [serves EXCEPT ![c].pc = "delete"]
    /\ UNCHANGED <<run, codecs, codecClosed, rpcStop>>

\* untrackCodec: delete(s.codecs, codec), with the deferred Unlock.
UntrackCodec(c) ==
    /\ serves[c].pc = "delete"
    /\ codecs' = codecs \ {c}
    /\ rpcMu' = rpcMu \ {ServeHolds(c)}
    /\ serves' = [serves EXCEPT ![c].pc = "close"]
    /\ UNCHANGED <<run, codecClosed, rpcStop>>

\* The deferred codec.close(), and the return.
ServeClose(c) ==
    /\ serves[c].pc = "close"
    /\ codecClosed' = [codecClosed EXCEPT ![c] = TRUE]
    /\ serves' = [serves EXCEPT ![c].pc = "returned"]
    /\ UNCHANGED <<run, codecs, rpcMu, rpcStop>>

\* Server.Stop: s.mutex.Lock()
RpcStopLock ==
    /\ rpcStop = "idle"
    /\ rpcMu = {}
    /\ rpcMu' = {StopHolds}
    /\ rpcStop' = "swap"
    /\ UNCHANGED <<run, codecs, serves, codecClosed>>

\* A mutant: Stop clears run and closes no codec.
RpcStopRun_closesNone ==
    /\ rpcStop = "swap"
    /\ run' = FALSE
    /\ rpcMu' = rpcMu \ {StopHolds}
    /\ rpcStop' = "returned"
    /\ UNCHANGED <<codecs, serves, codecClosed>>

\* Server.Stop: run.CompareAndSwap(true, false), close of every tracked
\* codec, and the deferred Unlock.
RpcStopRun ==
    /\ rpcStop = "swap"
    /\ run' = FALSE
    /\ codecClosed' = IF run
                      THEN [c \in Codecs |-> codecClosed[c] \/ c \in codecs]
                      ELSE codecClosed
    /\ rpcMu' = rpcMu \ {StopHolds}
    /\ rpcStop' = "returned"
    /\ UNCHANGED <<codecs, serves>>

\* The next call of Stop is made.
RpcStopNext ==
    /\ rpcStop = "returned"
    /\ rpcStop' = "idle"
    /\ UNCHANGED <<run, codecs, rpcMu, serves, codecClosed>>

\* NewServer
InitRpc ==
    /\ run = TRUE
    /\ codecs = {}
    /\ rpcMu = {}
    /\ serves = [c \in Codecs |-> IdleServe]
    /\ codecClosed = [c \in Codecs |-> FALSE]
    /\ rpcStop = "idle"

(***************************************************************************)
(* The size-constrained LRU of package lru, as its tests use it: a cache   *)
(* of capacity LruCap bytes, keys mkHash(i), and one value per key (the    *)
(* tests derive the value from the key).  The cache is kept as the list of *)
(* its keys, least recently used first, with the byte count in lruSize.    *)
(***************************************************************************)
LruCap == 3         \* NewSizeConstrainedLRU(100), scaled down
MaxKey == 4         \* the small keys are mkHash(0..MaxKey)
ItemLen == 1        \* len("value-0000"), scaled down
BigKey == 1337      \* mkHash(1337), the key of the oversized value

LruKeys == (0..MaxKey) \cup {BigKey}
NoValue == [found |-> FALSE]

\* the length of the value the tests store under key k
ValueLen(k) == IF k = BigKey THEN 2 * LruCap ELSE ItemLen + (k % 2)

RECURSIVE TotalLen(_)
TotalLen(keys) == IF keys = <<>> THEN 0 ELSE ValueLen(Head(keys)) + TotalLen(Tail(keys))

LruContains(k) == \E i \in 1..Len(lru) : lru[i] = k

LruWithout(keys, k) == SelectSeq(keys, LAMBDA x : x # k)

\* RemoveOldest until the target size fits or the list is empty
RECURSIVE EvictFor(_, _)
EvictFor(keys, target) ==
    IF target > LruCap /\ keys # <<>>
    THEN EvictFor(Tail(keys), target - ValueLen(Head(keys)))
    ELSE [keys |-> keys, size |-> target]

\* mutant: Add never evicts
LruAdd_keepsAll(k) ==
    /\ lru' = Append(LruWithout(lru, k), k)
    /\ lruSize' = IF LruContains(k) THEN lruSize ELSE lruSize + ValueLen(k)
    /\ UNCHANGED lruGot

\* lru.Add(k, v): a key already held is only moved to the most recent end
LruAdd(k) ==
    /\ IF LruContains(k)
       THEN /\ lru' = Append(LruWithout(lru, k), k)
            /\ UNCHANGED lruSize
       ELSE LET kept == EvictFor(lru, lruSize + ValueLen(k))
            IN /\ lru' = Append(kept.keys, k)
               /\ lruSize' = kept.size
    /\ UNCHANGED lruGot

\* lru.Get(k): the value, or nil; a hit makes k the most recently used
LruGet(k) ==
    /\ lruGot' = IF LruContains(k) THEN [found |-> TRUE, key |-> k] ELSE NoValue
    /\ lru' = IF LruContains(k) THEN Append(LruWithout(lru, k), k) ELSE lru
    /\ UNCHANGED lruSize

\* NewSizeConstrainedLRU
InitLru ==
    /\ lru = <<>>
    /\ lruSize = 0
    /\ lruGot = NoValue

(***************************************************************************)
(* The swarm collaborator's answer to Exists(hash, size): the artifact is  *)
(* held and at least size bytes of it are there.                           *)
(***************************************************************************)
NothingStored == [h \in {} |-> 0]

Exists(held, ih, size) == ih \in DOMAIN held /\ held[ih] >= size

\* fs.download with the existence question put to the collaborator as the
\* code puts it: Exists(ih, request)
DownloadHeld(ih, request, dbErr, searchErr) ==
    /\ DownloadCall(ih, request, dbErr, Exists(stored, ToLower(ih), request), searchErr)
    /\ UNCHANGED stored

InitHeld == stored = NothingStored

(***************************************************************************)
(* listen with its two timers.  ttl is a time.Timer: it fires once and     *)
(* stays idle until Reset.  ticker is a time.Ticker: it keeps firing, and  *)
(* a tick that finds the last one unread is dropped.  deferLog and         *)
(* refetched record what went through fs.ttlchan.                          *)
(***************************************************************************)
MaxDefers == 3      \* events deferred in SpecTick

\* the three seconds of ttl elapse
TtlFire ==
    /\ ttl = "armed"
    /\ ttl' = "fired"
    /\ UNCHANGED <<ticker, deferLog, refetched>>

\* the sixty seconds of ticker elapse
TickerFire ==
    /\ ticker' = "fired"
    /\ UNCHANGED <<ttl, deferLog, refetched>>

\* A mutant: the tick fetches every deferred event.
ListenTick_drains ==
    /\ ttl = "fired"
    /\ listen.pc = "select"
    /\ ttlchan' = <<>>
    /\ IF ttlchan # <<>> THEN Fetch(Head(ttlchan))
                         ELSE UNCHANGED <<ledger, searches, torrents, tasks, wg>>
    /\ ttl' = "armed"
    /\ refetched' = refetched \o ttlchan
    /\ UNCHANGED <<callback, listen, closeAll, once, closed, stops, ticker, deferLog>>

\* A mutant: the tick takes the newest deferred event.
ListenTick_takesNewest ==
    /\ ttl = "fired"
    /\ listen.pc = "select"
    /\ IF ttlchan # <<>>
       THEN /\ ttlchan' = SubSeq(ttlchan, 1, Len(ttlchan) - 1)
            /\ Fetch(ttlchan[Len(ttlchan)])
            /\ refetched' = Append(refetched, ttlchan[Len(ttlchan)])
       ELSE UNCHANGED <<ttlchan, ledger, searches, torrents, tasks, wg, refetched>>
    /\ ttl' = "armed"
    /\ UNCHANGED <<callback, listen, closeAll, once, closed, stops, ticker, deferLog>>

\* listen, case <-ttl.C with the timer: the receive from fs.ttlchan yields
\* its oldest event; ttl.Reset(3 * time.Second) ends the case.
ListenTick ==
    /\ ttl = "fired"
    /\ ListenTtl
    /\ ttl' = "armed"
    /\ refetched' = IF Len(ttlchan) > 0 THEN Append(refetched, Head(ttlchan)) ELSE refetched
    /\ UNCHANGED <<ticker, deferLog>>

\* listen, case <-ticker.C with the ticker
ListenSlowTick ==
    /\ ticker = "fired"
    /\ ListenTicker
    /\ ticker' = "armed"
    /\ UNCHANGED <<ttl, deferLog, refetched>>

\* listen, case msg := <-fs.callback; a completed send on fs.ttlchan is logged
ListenDefer ==
    /\ ListenEvent
    /\ deferLog' = IF ~immediate(Head(callback)) /\ Len(ttlchan) < TtlchanCap
                   THEN Append(deferLog, Head(callback))
                   ELSE deferLog
    /\ UNCHANGED <<ttl, ticker, refetched>>

\* time.NewTimer, time.NewTicker
InitTick ==
    /\ ttl = "armed"
    /\ ticker = "armed"
    /\ deferLog = <<>>
    /\ refetched = <<>>

(***************************************************************************)
(* TorrentFS.Download -> bitsflow, one step per transition of its select.  *)
(* A call that reaches the select with a case ready takes a ready case,    *)
(* any of them when both are; with none ready it parks, and the first case *)
(* to become ready wakes it.  Of a call: ctxDone says its context has      *)
(* ended, atEntry whether it had when the select began, sent whether the   *)
(* event was placed on fs.callback, late whether ctxDone held when it was. *)
(***************************************************************************)
MaxDls == 1
DlCalls == 1..MaxDls
CtxErr == "context canceled"
IdleDl ==
    [pc |-> "idle", ev |-> BitsFlow(<<>>, 0), ctxDone |-> FALSE, atEntry |-> FALSE,
     sent |-> FALSE, late |-> FALSE, ret |-> "none"]

\* Download(ctx, ih, request) is called; ctx may have ended already
DownloadBegin(c, e, done) ==
    /\ dl[c].pc = "idle"
    /\ dl' = [dl EXCEPT ![c] = [IdleDl EXCEPT !.pc = "select", !.ev = e, !.ctxDone = done]]
    /\ UNCHANGED stopVars

\* the context of call c ends; a parked call is woken by it
CtxEnd(c) ==
    /\ dl[c].pc \in {"select", "parked"}
    /\ ~dl[c].ctxDone
    /\ dl' = [dl EXCEPT ![c].ctxDone = TRUE,
                        ![c].pc = IF dl[c].pc = "parked" THEN "woken" ELSE @]
    /\ UNCHANGED stopVars

\* the select finds no case ready
DownloadPark(c) ==
    /\ dl[c].pc = "select"
    /\ Len(callback) >= CallbackCap
    /\ ~dl[c].ctxDone
    /\ dl' = [dl EXCEPT ![c].pc = "parked"]
    /\ UNCHANGED stopVars

\* A mutant: the call returns nil without waiting for room.
DownloadSend_dropsWhenFull(c) ==
    /\ dl[c].pc \in {"select", "parked"}
    /\ callback' = IF Len(callback) < CallbackCap THEN Append(callback, dl[c].ev)
                                                  ELSE callback
    /\ dl' = [dl EXCEPT ![c].pc = "returned", ![c].sent = Len(callback) < CallbackCap,
                        ![c].late = dl[c].ctxDone,
                        ![c].atEntry = dl[c].ctxDone /\ dl[c].pc = "select",
                        ![c].ret = NoErr]
    /\ UNCHANGED <<ttlchan, listen, closeAll, once, closed, stops>>

\* case fs.callback <- types.NewBitsFlow(ih, size); return nil
DownloadSend(c) ==
    /\ dl[c].pc \in {"select", "parked"}
    /\ Download(dl[c].ev.ih, dl[c].ev.request)
    /\ dl' = [dl EXCEPT ![c].pc = "returned", ![c].sent = TRUE,
                        ![c].late = dl[c].ctxDone,
                        ![c].atEntry = dl[c].ctxDone /\ dl[c].pc = "select",
                        ![c].ret = NoErr]

\* case <-ctx.Done(): return ctx.Err()
DownloadCtx(c) ==
    /\ dl[c].pc \in {"select", "woken"}
    /\ dl[c].ctxDone
    /\ dl' = [dl EXCEPT ![c].pc = "returned", ![c].ret = CtxErr,
                        ![c].atEntry = dl[c].pc = "select"]
    /\ UNCHANGED stopVars

\* the caller makes its next call
DownloadNext(c) ==
    /\ dl[c].pc = "returned"
    /\ dl' = [dl EXCEPT ![c] = IdleDl]
    /\ UNCHANGED stopVars

InitDl == dl = [c \in DlCalls |-> IdleDl]

(***************************************************************************)
(* The inference server: submitInferWork tests stopInfer and then sends on *)
(* the unbuffered inferWorkCh; fetchWork receives from it or from exitCh;  *)
(* Close clears stopInfer and closes exitCh.  Of a submit call, handed     *)
(* says the worker took its work, late that Close had returned by then.    *)
(***************************************************************************)
MaxSubs == 3
Submitters == 1..MaxSubs
ErrClosed == "Inference Server is closed"
IdleSub == [pc |-> "idle", handed |-> FALSE, late |-> FALSE, ret |-> "none"]

\* if atomic.LoadInt32(&is.stopInfer) == 0 { return errors.New(...) }
SubmitCheck(c) ==
    /\ subs[c].pc = "idle"
    /\ subs' = IF stopInfer = 0
               THEN [subs EXCEPT ![c].pc = "returned", ![c].ret = ErrClosed]
               ELSE [subs EXCEPT ![c].pc = "sending"]
    /\ UNCHANGED <<stopInfer, exitCh, fetchWork, inferClose>>

\* is.inferWorkCh <- iw meets case inferWork := <-is.inferWorkCh: the send
\* completes, submitInferWork returns nil and the worker starts localInfer
FetchReceive(c) ==
    /\ fetchWork = "select"
    /\ subs[c].pc = "sending"
    /\ subs' = [subs EXCEPT ![c].pc = "returned", ![c].handed = TRUE,
                            ![c].late = inferClose = "returned", ![c].ret = NoErr]
    /\ UNCHANGED <<stopInfer, exitCh, fetchWork, inferClose>>

\* fetchWork, case <-is.exitCh: return
FetchExit ==
    /\ fetchWork = "select"
    /\ exitCh
    /\ fetchWork' = "exited"
    /\ UNCHANGED <<stopInfer, exitCh, subs, inferClose>>

\* Close: atomic.StoreInt32(&is.stopInfer, 0)
CloseStore ==
    /\ inferClose = "idle"
    /\ stopInfer' = 0
    /\ inferClose' = "stored"
    /\ UNCHANGED <<exitCh, fetchWork, subs>>

\* Close: close(is.exitCh), return
CloseExit ==
    /\ inferClose = "stored"
    /\ exitCh' = TRUE
    /\ inferClose' = "returned"
    /\ UNCHANGED <<stopInfer, fetchWork, subs>>

\* the caller makes its next submitInferWork call
SubmitNext(c) ==
    /\ subs[c].pc = "returned"
    /\ subs' = [subs EXCEPT ![c] = IdleSub]
    /\ UNCHANGED <<stopInfer, exitCh, fetchWork, inferClose>>

\* New: stopInfer: 1, both channels open, go fetchWork()
InitInfer ==
    /\ stopInfer = 1
    /\ exitCh = FALSE
    /\ fetchWork = "select"
    /\ subs = [c \in Submitters |-> IdleSub]
    /\ inferClose = "idle"

InitAux == InitLru /\ InitHeld /\ InitTick /\ InitDl /\ InitInfer
InitAuxButInfer == InitLru /\ InitHeld /\ InitTick /\ InitDl
InitAuxButDl == InitLru /\ InitHeld /\ InitTick /\ InitInfer
InitAuxButTick == InitLru /\ InitHeld /\ InitDl /\ InitInfer
InitAuxButLru == InitHeld /\ InitTick /\ InitDl /\ InitInfer
InitAuxButHeld == InitLru /\ InitTick /\ InitDl /\ InitInfer

InitExt == InitFetch /\ InitNew /\ InitSeed /\ InitRpc /\ InitAux

vars ==
    <<tunnelVars, peerVars, collabVars, apiVars, taskVars, stopVars, lockVars, connVars,
      extVars>>

(***************************************************************************)
(* SpecTunnel: sequential broadcast calls, the clock and the evictions.    *)
(***************************************************************************)
TunnelHashes == {HashAB, Hash0xAB, HashBadChar}

InitTunnel ==
    /\ tunnel = EmptyTunnel
    /\ now = 0
    /\ bcLog = <<>>

InitPeers ==
    /\ peers = <<>>
    /\ in = 0
    /\ out = 0
    /\ sess = [s \in Sessions |-> IdleSession]

StatusHashes == {HashAB, HashCd}

InitCollab ==
    /\ ledger = EmptyLedger
    /\ searches = {}
    /\ torrents = [h \in StatusHashes |-> NoFlags]

InitApi ==
    /\ statusRes = NoStatusCall
    /\ gets = [c \in GetCalls |-> IdleGet]
    /\ worm = {}

\* New leaves fs.wg at 1, for the scheduler loop it started.
InitTasks ==
    /\ tasks = EmptyBag
    /\ wg = 1

NextTunnel ==
    \/ \E ih \in TunnelHashes, rawSize \in Sizes :
          Broadcast(ih, rawSize) /\ UNCHANGED <<extVars, connVars, lockVars, stopVars, peerVars, collabVars, apiVars, taskVars>>
    \/ Tick /\ UNCHANGED <<extVars, connVars, lockVars, stopVars, peerVars, collabVars, apiVars, taskVars>>
    \/ \E key \in TunnelHashes :
          Evict(key) /\ UNCHANGED <<extVars, connVars, lockVars, stopVars, peerVars, collabVars, apiVars, taskVars>>

InitSpecTunnel ==
    InitTunnel /\ InitPeers /\ InitCollab /\ InitApi /\ InitTasks /\ InitStop
        /\ InitLock /\ InitConn /\ InitExt

SpecTunnel == InitSpecTunnel /\ [][NextTunnel]_vars

(***************************************************************************)
(* SpecPeer: sessions connect, shake hands, read packets and return.       *)
(***************************************************************************)
PeerHashes == {HashAB, HashBadChar, HashShort}

InitPeer ==
    /\ InitTunnel
    /\ InitPeers
    /\ ledger \in {EmptyLedger, [h \in {HashAB} |-> 1]}
    /\ searches = {}
    /\ torrents = [h \in StatusHashes |-> NoFlags]
    /\ InitApi
    /\ InitTasks
    /\ InitStop
    /\ InitLock /\ InitConn /\ InitExt

NextPeer ==
    \/ \E s \in Sessions, id \in NodeIds :
          PeerRegister(s, id) /\ UNCHANGED <<extVars, connVars, lockVars, stopVars, tunnelVars, collabVars, apiVars, taskVars>>
    \/ \E s \in Sessions, ok \in BOOLEAN, info \in Infos :
          PeerHandshake(s, ok, info) /\ UNCHANGED <<extVars, connVars, lockVars, stopVars, tunnelVars, collabVars, apiVars, taskVars>>
    \/ \E s \in Sessions, m \in Packets(PeerHashes) :
          PeerRead(s, m) /\ UNCHANGED <<extVars, connVars, lockVars, stopVars, tunnelVars, apiVars, taskVars>>
    \/ \E s \in Sessions :
          PeerReadError(s) /\ UNCHANGED <<extVars, connVars, lockVars, stopVars, tunnelVars, collabVars, apiVars, taskVars>>
    \/ \E s \in Sessions :
          PeerReturn(s) /\ UNCHANGED <<extVars, connVars, lockVars, stopVars, tunnelVars, collabVars, apiVars, taskVars>>

SpecPeer == InitPeer /\ [][NextPeer]_vars

(***************************************************************************)
(* SpecStatus: Status queries while the collaborator's flags change.       *)
(***************************************************************************)
NextStatus ==
    \/ \E ih \in StatusHashes :
          StatusCall(ih)
              /\ UNCHANGED <<extVars, connVars, lockVars, stopVars, tunnelVars, peerVars, ledger, searches, gets, worm, taskVars>>
    \/ \E ih \in StatusHashes, fl \in Flags :
          SwarmChange(ih, fl)
              /\ UNCHANGED <<extVars, connVars, lockVars, stopVars, tunnelVars, peerVars, ledger, searches, gets, worm, taskVars>>

InitSpecStatus ==
    InitTunnel /\ InitPeers /\ InitCollab /\ InitApi /\ InitTasks /\ InitStop
        /\ InitLock /\ InitConn /\ InitExt

SpecStatus == InitSpecStatus /\ [][NextStatus]_vars

(***************************************************************************)
(* SpecGetFile: GetFileWithSize calls and the goroutines they spawn.       *)
(***************************************************************************)
GetHashes == {HashAB, HashCd}

InitSpecGetFile ==
    /\ InitTunnel
    /\ InitPeers
    /\ ledger \in {EmptyLedger, [h \in {HashAB} |-> 1]}
    /\ searches = {}
    /\ torrents = [h \in StatusHashes |-> NoFlags]
    /\ InitApi
    /\ InitTasks
    /\ InitStop
    /\ InitLock /\ InitConn /\ InitExt

NextGetFile ==
    \/ \E c \in GetCalls, ih \in GetHashes, rawSize \in Sizes, res \in GetFileResults :
          GetFileWithSize(c, ih, rawSize, res)
              /\ UNCHANGED <<extVars, connVars, lockVars, stopVars, tunnelVars, peerVars, collabVars, statusRes>>
    \/ \E c \in GetCalls, res \in GetFileResults :
          GetPoll(c, res) /\ UNCHANGED <<extVars, connVars, lockVars, stopVars, tunnelVars, peerVars, collabVars, statusRes>>
    \/ \E c \in GetCalls :
          GetCtxDone(c) /\ UNCHANGED <<extVars, connVars, lockVars, stopVars, tunnelVars, peerVars, collabVars, statusRes>>
    \/ \E t \in BagToSet(tasks) :
          RunWakeup(t) /\ UNCHANGED <<extVars, connVars, lockVars, stopVars, tunnelVars, peerVars, apiVars>>
    \/ \E t \in BagToSet(tasks) :
          RunEncounter(t)
              /\ UNCHANGED <<extVars, connVars, lockVars, stopVars, tunnelVars, peerVars, collabVars, statusRes, gets>>

SpecGetFile == InitSpecGetFile /\ [][NextGetFile]_vars

(***************************************************************************)
(* SpecStop: download events, the scheduler loop, the goroutines of        *)
(* download and Stop calls.  The clock stands still, so no entry of the    *)
(* tunnel expires on its own.                                              *)
(***************************************************************************)
Events == {BitsFlow(HashCd, 0), BitsFlow(HashCd, 1), BitsFlow(HashAB, 0)}

InitSpecStop ==
    InitTunnel /\ InitPeers /\ InitCollab /\ InitApi /\ InitTasks /\ InitStop
        /\ InitLock /\ InitConn /\ InitExt

NextSched ==
    \/ ListenEvent /\ UNCHANGED <<extVars, connVars, lockVars, tunnelVars, peerVars, apiVars>>
    \/ ListenTtl /\ UNCHANGED <<extVars, connVars, lockVars, tunnelVars, peerVars, apiVars>>
    \/ ListenTicker /\ UNCHANGED <<extVars, connVars, lockVars, tunnelVars, peerVars, apiVars>>
    \/ ListenClose /\ UNCHANGED <<extVars, connVars, lockVars, tunnelVars, peerVars, apiVars>>
    \/ \E t \in BagToSet(tasks) :
          RunBroadcast(t) /\ UNCHANGED <<extVars, connVars, lockVars, stopVars, peerVars, collabVars, apiVars>>
    \/ \E c \in DOMAIN stops :
          StopEnter(c) /\ UNCHANGED <<extVars, connVars, lockVars, tunnelVars, peerVars, collabVars, apiVars, taskVars>>
    \/ \E c \in DOMAIN stops :
          StopCloseHandler(c)
              /\ UNCHANGED <<extVars, connVars, lockVars, tunnelVars, peerVars, collabVars, apiVars, taskVars>>
    \/ \E c \in DOMAIN stops :
          StopCloseDb(c)
              /\ UNCHANGED <<extVars, connVars, lockVars, tunnelVars, peerVars, collabVars, apiVars, taskVars>>
    \/ \E c \in DOMAIN stops :
          StopMonitor(c)
              /\ UNCHANGED <<extVars, connVars, lockVars, tunnelVars, peerVars, collabVars, apiVars, taskVars>>
    \/ \E c \in DOMAIN stops :
          StopCloseAll(c)
              /\ UNCHANGED <<extVars, connVars, lockVars, tunnelVars, peerVars, collabVars, apiVars, taskVars>>
    \/ \E c \in DOMAIN stops :
          StopWait(c) /\ UNCHANGED <<extVars, connVars, lockVars, tunnelVars, peerVars, collabVars, apiVars, taskVars>>
    \/ \E c \in DOMAIN stops :
          StopDrain(c)
              /\ UNCHANGED <<extVars, connVars, lockVars, now, bcLog, peerVars, collabVars, apiVars, taskVars>>

NextStop ==
    \/ \E e \in Events :
          Download(e.ih, e.request)
              /\ UNCHANGED <<extVars, connVars, lockVars, tunnelVars, peerVars, collabVars, apiVars, taskVars>>
    \/ NextSched

SpecStop == InitSpecStop /\ [][NextStop]_vars

(***************************************************************************)
(* SpecStopLive: SpecStop with the scheduling Go gives.  A goroutine that  *)
(* can run does run: each Stop call takes its next step, each broadcast     *)
(* goroutine finishes, and the loop's select, which chooses among its      *)
(* ready cases at random, takes the closeAll case once it stays ready.     *)
(* Nothing obliges a caller to call Download.                              *)
(***************************************************************************)
SchedRest ==
    <<extVars, connVars, lockVars, tunnelVars, peerVars, collabVars, apiVars, taskVars>>

StopStep(c) ==
    \/ /\ \/ StopEnter(c) \/ StopCloseHandler(c) \/ StopCloseDb(c)
          \/ StopMonitor(c) \/ StopCloseAll(c) \/ StopWait(c)
       /\ UNCHANGED SchedRest
    \/ /\ StopDrain(c)
       /\ UNCHANGED <<extVars, connVars, lockVars, now, bcLog, peerVars, collabVars, apiVars,
                      taskVars>>

ListenCloseStep ==
    ListenClose /\ UNCHANGED <<extVars, connVars, lockVars, tunnelVars, peerVars, apiVars>>

TaskStep ==
    \E t \in BagToSet(tasks) :
       RunBroadcast(t)
           /\ UNCHANGED <<extVars, connVars, lockVars, stopVars, peerVars, collabVars, apiVars>>

SpecStopLive ==
    /\ InitSpecStop
    /\ [][NextStop]_vars
    /\ WF_vars(ListenCloseStep)
    /\ WF_vars(TaskStep)
    /\ \A c \in StopCalls : WF_vars(StopStep(c))

(***************************************************************************)
(* SpecShutdown: several Stop calls, sequential or concurrent, against the *)
(* running scheduler.                                                      *)
(***************************************************************************)
MaxStoppers == 2
Stoppers == 1..MaxStoppers
ShutdownEvents == {BitsFlow(HashCd, 0), BitsFlow(HashCd, 1)}

InitSpecShutdown ==
    /\ InitTunnel /\ InitPeers /\ InitCollab /\ InitApi /\ InitTasks /\ InitLock /\ InitConn /\ InitExt
    /\ callback = <<>>
    /\ ttlchan = <<>>
    /\ listen = ListenSelect
    /\ closeAll = FALSE
    /\ once = "fresh"
    /\ closed = NotClosed
    /\ stops = [c \in Stoppers |-> IdleStop]

NextShutdown ==
    \/ \E e \in ShutdownEvents :
          Download(e.ih, e.request)
              /\ UNCHANGED <<extVars, connVars, lockVars, tunnelVars, peerVars, collabVars, apiVars, taskVars>>
    \/ NextSched

SpecShutdown == InitSpecShutdown /\ [][NextShutdown]_vars

(***************************************************************************)
(* Spec: SpecStop together with a peer session, which registers, shakes    *)
(* hands, reads packets and returns while the node is being stopped.       *)
(***************************************************************************)
PeerEvents == {BitsFlow(HashCd, 0), BitsFlow(HashCd, 1)}
HashLowerCd == ToLower(HashCd)
StopPackets ==
    { [code |-> QueryCode, size |-> MaxMessageSize, decodes |-> TRUE,
       hash |-> HashLowerCd],
      [code |-> OtherCode, size |-> MaxMessageSize] }

InitSpec ==
    InitTunnel /\ InitPeers /\ InitCollab /\ InitApi /\ InitTasks /\ InitStop
        /\ InitLock /\ InitConn /\ InitExt

NextSession ==
    \/ \E s \in Sessions :
          PeerRegister(s, "n1")
              /\ UNCHANGED <<extVars, connVars, lockVars, stopVars, tunnelVars, collabVars, apiVars, taskVars>>
    \/ \E s \in Sessions, ok \in BOOLEAN :
          PeerHandshake(s, ok, "info1")
              /\ UNCHANGED <<extVars, connVars, lockVars, stopVars, tunnelVars, collabVars, apiVars, taskVars>>
    \/ \E s \in Sessions, m \in StopPackets :
          PeerRead(s, m) /\ UNCHANGED <<extVars, connVars, lockVars, stopVars, tunnelVars, apiVars, taskVars>>
    \/ \E s \in Sessions :
          PeerReadError(s)
              /\ UNCHANGED <<extVars, connVars, lockVars, stopVars, tunnelVars, collabVars, apiVars, taskVars>>
    \/ \E s \in Sessions :
          PeerReturn(s)
              /\ UNCHANGED <<extVars, connVars, lockVars, stopVars, tunnelVars, collabVars, apiVars, taskVars>>

Next ==
    \/ \E e \in PeerEvents :
          Download(e.ih, e.request)
              /\ UNCHANGED <<extVars, connVars, lockVars, tunnelVars, peerVars, collabVars, apiVars, taskVars>>
    \/ NextSched
    \/ NextSession

Spec == InitSpec /\ [][Next]_vars

(***************************************************************************)
(* SpecRegistry: sessions registering and unregistering step by step,      *)
(* beside calls of PeerInfo and of Neighbors, with fs.net set or not.      *)
(***************************************************************************)
InitSpecRegistry ==
    /\ InitTunnel /\ InitPeers /\ InitCollab /\ InitApi /\ InitTasks /\ InitStop
    /\ InitConn /\ InitExt
    /\ peerMu = FreeMu
    /\ callers = [c \in Callers |-> IdleCaller]
    /\ net \in BOOLEAN

RegistryRest == <<tunnelVars, collabVars, apiVars, taskVars, stopVars>>

NextRegistry ==
    \/ \E s \in Sessions, id \in NodeIds :
          RegisterLock(s, id) /\ UNCHANGED <<extVars, connVars, RegistryRest>>
    \/ \E s \in Sessions :
          RegisterUnlock(s) /\ UNCHANGED <<extVars, connVars, RegistryRest>>
    \/ \E s \in Sessions, ok \in BOOLEAN, info \in Infos :
          PeerHandshake(s, ok, info) /\ UNCHANGED <<extVars, connVars, lockVars, RegistryRest>>
    \/ \E s \in Sessions :
          PeerReadError(s) /\ UNCHANGED <<extVars, connVars, lockVars, RegistryRest>>
    \/ \E s \in Sessions :
          UnregisterLock(s) /\ UNCHANGED <<extVars, connVars, RegistryRest>>
    \/ \E s \in Sessions :
          UnregisterUnlock(s) /\ UNCHANGED <<extVars, connVars, RegistryRest>>
    \/ \E c \in Callers :
          PeerInfoRLock(c) /\ UNCHANGED <<extVars, connVars, RegistryRest>>
    \/ \E c \in Callers, id \in NodeIds :
          PeerInfoReturn(c, id) /\ UNCHANGED <<extVars, connVars, RegistryRest>>
    \/ \E c \in Callers, count \in Counts :
          NeighborsCall(c, count) /\ UNCHANGED <<extVars, connVars, RegistryRest>>
    \/ \E c \in Callers, count \in Counts :
          NeighborsReturn(c, count) /\ UNCHANGED <<extVars, connVars, RegistryRest>>

SpecRegistry == InitSpecRegistry /\ [][NextRegistry]_vars

(***************************************************************************)
(* SpecFetch: calls of download with every answer of the ledger and of the *)
(* swarm collaborator, and the broadcast goroutines they spawn.            *)
(***************************************************************************)
FetchHashes == {HashCd}

InitSpecFetch ==
    /\ InitTunnel /\ InitPeers /\ InitApi /\ InitTasks /\ InitStop /\ InitLock
    /\ InitConn /\ InitExt
    /\ ledger \in {EmptyLedger, [h \in {ToLower(HashCd)} |-> 1]}
    /\ searches = {}
    /\ torrents = [h \in StatusHashes |-> NoFlags]

NextFetch ==
    \/ \E ih \in FetchHashes, request \in Sizes,
          dbErr \in BOOLEAN, exist \in BOOLEAN, searchErr \in BOOLEAN :
          DownloadCall(ih, request, dbErr, exist, searchErr)
              /\ UNCHANGED <<newVars, seedVars, rpcVars, auxVars, connVars, lockVars, stopVars, tunnelVars, peerVars, apiVars>>
    \/ \E t \in BagToSet(tasks) :
          RunBroadcast(t)
              /\ UNCHANGED <<extVars, connVars, lockVars, stopVars, peerVars, collabVars, apiVars>>

SpecFetch == InitSpecFetch /\ [][NextFetch]_vars

(***************************************************************************)
(* SpecAnnounce: the fetches of the scheduler loop, one after another, and *)
(* the broadcast goroutines they spawn, interleaved at the grain of their  *)
(* calls on the tunnel, while the clock runs.                              *)
(***************************************************************************)
AnnounceEvents == {BitsFlow(HashCd, r) : r \in Sizes}

InitSpecAnnounce ==
    /\ InitTunnel /\ InitPeers /\ InitCollab /\ InitApi /\ InitTasks /\ InitStop
    /\ InitLock /\ InitConn /\ InitExt

NextAnnounce ==
    \/ \E meta \in AnnounceEvents :
          Fetch(meta)
              /\ UNCHANGED <<extVars, connVars, lockVars, stopVars, tunnelVars, peerVars, apiVars>>
    \/ \E t \in BagToSet(tasks) :
          BroadcastGet(t)
              /\ UNCHANGED <<extVars, connVars, lockVars, stopVars, peerVars, collabVars, apiVars>>
    \/ \E t \in BagToSet(tasks) :
          BroadcastSet(t)
              /\ UNCHANGED <<extVars, connVars, lockVars, stopVars, peerVars, collabVars, apiVars>>
    \/ Tick /\ UNCHANGED <<extVars, connVars, lockVars, stopVars, peerVars, collabVars, apiVars, taskVars>>
    \/ \E key \in DOMAIN tunnel :
          Evict(key)
              /\ UNCHANGED <<extVars, connVars, lockVars, stopVars, peerVars, collabVars, apiVars, taskVars>>

SpecAnnounce == InitSpecAnnounce /\ [][NextAnnounce]_vars

(***************************************************************************)
(* SpecOracle: Status queries while the scheduler loop has events waiting  *)
(* and the collaborator's flags change.                                    *)
(***************************************************************************)
OracleEvents == {BitsFlow(HashAB, 0), BitsFlow(HashCd, 0)}
OracleHashes == {HashAB}

InitSpecOracle ==
    /\ InitTunnel /\ InitPeers /\ InitCollab /\ InitApi /\ InitTasks /\ InitStop
    /\ InitLock /\ InitConn /\ InitExt

NextOracle ==
    \/ \E ih \in OracleHashes :
          StatusCall(ih)
              /\ UNCHANGED <<extVars, connVars, lockVars, stopVars, tunnelVars, peerVars, ledger, searches, gets, worm, taskVars>>
    \/ \E ih \in OracleHashes, fl \in Flags :
          SwarmChange(ih, fl)
              /\ UNCHANGED <<extVars, connVars, lockVars, stopVars, tunnelVars, peerVars, ledger, searches, gets, worm, taskVars>>
    \/ \E e \in OracleEvents :
          Download(e.ih, e.request)
              /\ UNCHANGED <<extVars, connVars, lockVars, tunnelVars, peerVars, collabVars, apiVars, taskVars>>
    \/ ListenEvent /\ UNCHANGED <<extVars, connVars, lockVars, tunnelVars, peerVars, apiVars>>
    \/ ListenTtl /\ UNCHANGED <<extVars, connVars, lockVars, tunnelVars, peerVars, apiVars>>
    \/ \E t \in BagToSet(tasks) :
          RunBroadcast(t) /\ UNCHANGED <<extVars, connVars, lockVars, stopVars, peerVars, collabVars, apiVars>>

SpecOracle == InitSpecOracle /\ [][NextOracle]_vars

(***************************************************************************)
(* SpecNew: New calls from several goroutines, from before the first       *)
(* instance exists.                                                        *)
(***************************************************************************)
InitSpecNew ==
    /\ InitTunnel /\ InitPeers /\ InitCollab /\ InitApi /\ InitLock /\ InitConn
    /\ InitFetch /\ InitSeed /\ InitRpc /\ InitAux
    /\ tasks = EmptyBag
    /\ wg = 0
    /\ callback = <<>>
    /\ ttlchan = <<>>
    /\ listen = ListenNotStarted
    /\ closeAll = FALSE
    /\ once = "fresh"
    /\ closed = NotClosed
    /\ stops = [c \in StopCalls |-> IdleStop]
    /\ inst = NilInst
    /\ mut = {}
    /\ news = [c \in NewCalls |-> IdleNew]
    /\ built = 0

NewRest ==
    <<fetchVars, seedVars, rpcVars, auxVars, connVars, lockVars, tunnelVars, peerVars, collabVars,
      apiVars, tasks,
      callback, ttlchan, closeAll, once, closed, stops>>

NextNew ==
    \/ \E c \in NewCalls : NewLock(c) /\ UNCHANGED <<NewRest, wg, listen>>
    \/ \E c \in NewCalls : NewCheck(c) /\ UNCHANGED <<NewRest, wg, listen>>
    \/ \E c \in NewCalls, e \in NewErrors : NewBuild(c, {e}) /\ UNCHANGED NewRest
    \/ \E c \in NewCalls : NewBuild(c, {}) /\ UNCHANGED NewRest
    \/ \E c \in NewCalls : NewUnlock(c) /\ UNCHANGED <<NewRest, wg, listen>>

SpecNew == InitSpecNew /\ [][NextNew]_vars

(***************************************************************************)
(* SpecSeen: GetFileWithSize calls that find their file, the encounter     *)
(* goroutines they start, and Stop.                                        *)
(***************************************************************************)
SeenHashes == {HashCd, HashShort}
SeenResults == {r \in GetFileResults : ~r.err /\ r.len <= 1}

InitSpecSeen ==
    /\ InitTunnel /\ InitPeers /\ InitCollab /\ InitApi /\ InitTasks /\ InitStop
    /\ InitLock /\ InitConn /\ InitExt

SeenRest == <<extVars, connVars, lockVars, tunnelVars, peerVars, collabVars>>

NextSeen ==
    \/ \E c \in GetCalls, ih \in SeenHashes, res \in SeenResults :
          /\ BagCardinality(tasks) < MaxTasks
          /\ GetFileWithSize(c, ih, 1, res)
          /\ UNCHANGED <<SeenRest, stopVars, statusRes>>
    \/ \E c \in GetCalls : GetNext(c) /\ UNCHANGED <<SeenRest, stopVars, statusRes>>
    \/ \E t \in BagToSet(tasks) :
          EncounterContains(t) /\ UNCHANGED <<SeenRest, stopVars, statusRes, gets>>
    \/ \E t \in BagToSet(tasks) :
          EncounterAdd(t) /\ UNCHANGED <<SeenRest, stopVars, statusRes, gets>>
    \/ ListenClose /\ UNCHANGED <<SeenRest, apiVars>>
    \/ \E c \in DOMAIN stops : StopEnter(c) /\ UNCHANGED <<SeenRest, apiVars, taskVars>>
    \/ \E c \in DOMAIN stops : StopCloseHandler(c) /\ UNCHANGED <<SeenRest, apiVars, taskVars>>
    \/ \E c \in DOMAIN stops : StopCloseDb(c) /\ UNCHANGED <<SeenRest, apiVars, taskVars>>
    \/ \E c \in DOMAIN stops : StopMonitor(c) /\ UNCHANGED <<SeenRest, apiVars, taskVars>>
    \/ \E c \in DOMAIN stops : StopCloseAll(c) /\ UNCHANGED <<SeenRest, apiVars, taskVars>>
    \/ \E c \in DOMAIN stops : StopWait(c) /\ UNCHANGED <<SeenRest, apiVars, taskVars>>
    \/ \E c \in DOMAIN stops :
          StopDrain(c)
              /\ UNCHANGED <<extVars, connVars, lockVars, now, bcLog, peerVars, collabVars,
                             apiVars, taskVars>>

SpecSeen == InitSpecSeen /\ [][NextSeen]_vars

(***************************************************************************)
(* SpecSeed: SeedingLocal calls, one after another, in both modes and with *)
(* every answer of the file system and of the swarm collaborator.          *)
(***************************************************************************)
InitSpecSeed ==
    /\ InitTunnel /\ InitPeers /\ InitCollab /\ InitApi /\ InitTasks /\ InitStop
    /\ InitLock /\ InitConn /\ InitExt

SeedRest ==
    <<fetchVars, newVars, rpcVars, auxVars, connVars, lockVars, stopVars, tunnelVars, peerVars,
      apiVars, taskVars, ledger, torrents>>

NextSeed ==
    \/ \E isLinkMode \in BOOLEAN : SeedingLocal(isLinkMode) /\ UNCHANGED SeedRest
    \/ \E ok \in BOOLEAN : SeedCheckFolder(ok) /\ UNCHANGED SeedRest
    \/ \E found \in {"data", "path", "none"}, valid \in BOOLEAN :
          SeedCheckData(found, valid) /\ UNCHANGED SeedRest
    \/ \E e \in TorrentFileErrors : SeedTorrentFile({e}) /\ UNCHANGED SeedRest
    \/ SeedTorrentFile({}) /\ UNCHANGED SeedRest
    \/ \E outcome \in PlaceOutcomes : SeedPlace(outcome) /\ UNCHANGED SeedRest
    \/ \E searchErr \in BOOLEAN : SeedSeeding(searchErr) /\ UNCHANGED SeedRest
    \/ SeedNext /\ UNCHANGED SeedRest

SpecSeed == InitSpecSeed /\ [][NextSeed]_vars

(***************************************************************************)
(* SpecRpc: ServeCodec calls, remote closes and Stop on one rpc.Server.    *)
(***************************************************************************)
InitSpecRpc ==
    /\ InitTunnel /\ InitPeers /\ InitCollab /\ InitApi /\ InitTasks /\ InitStop
    /\ InitLock /\ InitConn /\ InitExt

RpcRest ==
    <<fetchVars, newVars, seedVars, auxVars, connVars, lockVars, stopVars, tunnelVars,
      peerVars, collabVars, apiVars, taskVars>>

NextRpc ==
    \/ \E c \in Codecs : ServeCodec(c) /\ UNCHANGED RpcRest
    \/ \E c \in Codecs : TrackLock(c) /\ UNCHANGED RpcRest
    \/ \E c \in Codecs : TrackCheck(c) /\ UNCHANGED RpcRest
    \/ \E c \in Codecs : TrackAdd(c) /\ UNCHANGED RpcRest
    \/ \E c \in Codecs : RemoteClose(c) /\ UNCHANGED RpcRest
    \/ \E c \in Codecs : ServeWake(c) /\ UNCHANGED RpcRest
    \/ \E c \in Codecs : UntrackLock(c) /\ UNCHANGED RpcRest
    \/ \E c \in Codecs : UntrackCodec(c) /\ UNCHANGED RpcRest
    \/ \E c \in Codecs : ServeClose(c) /\ UNCHANGED RpcRest
    \/ RpcStopLock /\ UNCHANGED RpcRest
    \/ RpcStopRun /\ UNCHANGED RpcRest
    \/ RpcStopNext /\ UNCHANGED RpcRest

SpecRpc == InitSpecRpc /\ [][NextRpc]_vars

(***************************************************************************)
(* SpecOrder: a session whose remote peer writes several packets before    *)
(* the message loop reads them.                                            *)
(***************************************************************************)
OrderPackets ==
    { [code |-> StatusCode, size |-> MaxMessageSize, decodes |-> TRUE, info |-> "info2"],
      [code |-> StatusCode, size |-> MaxMessageSize + 1, decodes |-> TRUE,
       info |-> "info2"],
      [code |-> QueryCode, size |-> MaxMessageSize, decodes |-> TRUE, hash |-> HashAB],
      [code |-> QueryCode, size |-> MaxMessageSize, decodes |-> TRUE,
       hash |-> HashBadChar],
      [code |-> OtherCode, size |-> MaxMessageSize] }

InitSpecOrder ==
    /\ InitTunnel
    /\ InitPeers
    /\ ledger \in {EmptyLedger, [h \in {HashAB} |-> 1]}
    /\ searches = {}
    /\ torrents = [h \in StatusHashes |-> NoFlags]
    /\ InitApi /\ InitTasks /\ InitStop /\ InitLock /\ InitConn /\ InitExt

OrderRest == <<tunnelVars, apiVars, taskVars, stopVars, lockVars, extVars>>

\* The session whose connection is followed; any other stays idle.
OrderSessions == {1}

NextOrder ==
    \/ \E s \in OrderSessions :
          PeerRegister(s, "n1") /\ UNCHANGED <<connVars, collabVars, OrderRest>>
    \/ \E s \in OrderSessions, ok \in BOOLEAN :
          PeerHandshake(s, ok, "info1") /\ UNCHANGED <<connVars, collabVars, OrderRest>>
    \/ \E s \in OrderSessions, m \in OrderPackets :
          PeerSend(s, m) /\ UNCHANGED <<peerVars, collabVars, OrderRest>>
    \/ \E s \in OrderSessions :
          PeerReadNext(s) /\ UNCHANGED OrderRest
    \/ \E s \in OrderSessions :
          PeerReadError(s) /\ UNCHANGED <<connVars, collabVars, OrderRest>>
    \/ \E s \in OrderSessions :
          PeerReturn(s) /\ UNCHANGED <<connVars, collabVars, OrderRest>>

SpecOrder == InitSpecOrder /\ [][NextOrder]_vars

(***************************************************************************)
(* SpecLru: the size-constrained cache under every sequence of Add and Get. *)
(***************************************************************************)
LruRest ==
    <<fetchVars, newVars, seedVars, rpcVars, auxButLru, connVars, lockVars, stopVars, tunnelVars,
      peerVars, collabVars, apiVars, taskVars>>

NextLru ==
    \/ \E k \in LruKeys : LruAdd(k) /\ UNCHANGED LruRest
    \/ \E k \in LruKeys : LruGet(k) /\ UNCHANGED LruRest

InitSpecLru ==
    /\ InitTunnel /\ InitPeers /\ InitCollab /\ InitApi /\ InitTasks /\ InitStop
    /\ InitLock /\ InitConn /\ InitExt

SpecLru == InitSpecLru /\ [][NextLru]_vars

(***************************************************************************)
(* SpecHeld: calls of download against a collaborator that holds nothing   *)
(* of the artifact, or some bytes of it.                                   *)
(***************************************************************************)
InitSpecHeld ==
    /\ InitTunnel /\ InitPeers /\ InitApi /\ InitTasks /\ InitStop /\ InitLock
    /\ InitConn /\ InitFetch /\ InitNew /\ InitSeed /\ InitRpc /\ InitAuxButHeld
    /\ stored \in {NothingStored} \cup {[h \in {ToLower(HashCd)} |-> n] : n \in Sizes}
    /\ ledger \in {EmptyLedger} \cup {[h \in {ToLower(HashCd)} |-> n] : n \in Sizes}
    /\ searches = {}
    /\ torrents = [h \in StatusHashes |-> NoFlags]

NextHeld ==
    \/ \E ih \in FetchHashes, request \in Sizes, dbErr \in BOOLEAN, searchErr \in BOOLEAN :
          DownloadHeld(ih, request, dbErr, searchErr)
              /\ UNCHANGED <<newVars, seedVars, rpcVars, auxButHeld, connVars, lockVars,
                             stopVars, tunnelVars, peerVars, apiVars>>
    \/ \E t \in BagToSet(tasks) :
          RunBroadcast(t)
              /\ UNCHANGED <<extVars, connVars, lockVars, stopVars, peerVars, collabVars,
                             apiVars>>

SpecHeld == InitSpecHeld /\ [][NextHeld]_vars

(***************************************************************************)
(* SpecTick: the scheduler loop with its timers, fed by Download.          *)
(***************************************************************************)
TickEvents == {BitsFlow(HashCd, 0), BitsFlow(HashShort, 0), BitsFlow(HashCd, 1)}

TickRest ==
    <<fetchVars, newVars, seedVars, rpcVars, auxButTick, connVars, lockVars, tunnelVars,
      peerVars, apiVars>>

NextTick ==
    \/ \E e \in TickEvents :
          /\ Len(deferLog) < MaxDefers
          /\ Download(e.ih, e.request)
          /\ UNCHANGED <<tickVars, collabVars, taskVars, TickRest>>
    \/ TtlFire /\ UNCHANGED <<stopVars, collabVars, taskVars, TickRest>>
    \/ TickerFire /\ UNCHANGED <<stopVars, collabVars, taskVars, TickRest>>
    \/ ListenDefer /\ UNCHANGED TickRest
    \/ ListenTick /\ UNCHANGED TickRest
    \/ ListenSlowTick /\ UNCHANGED TickRest
    \/ \E t \in BagToSet(tasks) :
          RunBroadcast(t)
              /\ UNCHANGED <<extVars, connVars, lockVars, stopVars, peerVars, collabVars,
                             apiVars>>

SpecTick == InitSpecStop /\ [][NextTick]_vars

(***************************************************************************)
(* SpecTwins: two connections, which may present the same node id, each    *)
(* running HandlePeer with its locked sections as separate steps.          *)
(***************************************************************************)
TwinSessions == {1, 2}

InitSpecTwins ==
    /\ InitTunnel /\ InitCollab /\ InitApi /\ InitTasks /\ InitStop /\ InitLock
    /\ InitConn /\ InitExt
    /\ peers = <<>>
    /\ in = 0
    /\ out = 0
    /\ sess = [s \in TwinSessions |-> IdleSession]

TwinsRest == <<extVars, connVars, tunnelVars, collabVars, apiVars, taskVars, stopVars>>

NextTwins ==
    \/ \E s \in TwinSessions, id \in NodeIds : RegisterLock(s, id) /\ UNCHANGED TwinsRest
    \/ \E s \in TwinSessions : RegisterUnlock(s) /\ UNCHANGED TwinsRest
    \/ \E s \in TwinSessions, ok \in BOOLEAN :
          PeerHandshake(s, ok, NoInfo) /\ UNCHANGED <<lockVars, TwinsRest>>
    \/ \E s \in TwinSessions : PeerReadError(s) /\ UNCHANGED <<lockVars, TwinsRest>>
    \/ \E s \in TwinSessions : UnregisterLock(s) /\ UNCHANGED TwinsRest
    \/ \E s \in TwinSessions : UnregisterUnlock(s) /\ UNCHANGED TwinsRest

SpecTwins == InitSpecTwins /\ [][NextTwins]_vars

(***************************************************************************)
(* SpecHandOff: Download calls with contexts that end, against the         *)
(* scheduler loop, which may lag behind, or which has exited: the second   *)
(* initial state is the one every Stop call has returned in.               *)
(***************************************************************************)
HandOffEvents == {BitsFlow(HashCd, 0), BitsFlow(HashCd, 1)}

AfterStop ==
    /\ callback = <<>>
    /\ ttlchan = <<>>
    /\ listen = ListenExited
    /\ closeAll = TRUE
    /\ once = "done"
    /\ closed = [handler |-> 1, db |-> 1, monitor |-> 1, signal |-> 1]
    /\ stops = [c \in StopCalls |-> [IdleStop EXCEPT !.pc = "returned", !.ret = NoErr]]
    /\ tasks = EmptyBag
    /\ wg = 0

InitSpecHandOff ==
    /\ InitTunnel /\ InitPeers /\ InitCollab /\ InitApi /\ InitLock /\ InitConn /\ InitExt
    /\ \/ InitStop /\ InitTasks
       \/ AfterStop

HandOffRest ==
    <<fetchVars, newVars, seedVars, rpcVars, auxButDl, connVars, lockVars, tunnelVars,
      peerVars, collabVars, apiVars, taskVars>>

NextHandOff ==
    \/ \E c \in DlCalls, e \in HandOffEvents, done \in BOOLEAN :
          DownloadBegin(c, e, done) /\ UNCHANGED HandOffRest
    \/ \E c \in DlCalls : CtxEnd(c) /\ UNCHANGED HandOffRest
    \/ \E c \in DlCalls : DownloadPark(c) /\ UNCHANGED HandOffRest
    \/ \E c \in DlCalls : DownloadSend(c) /\ UNCHANGED HandOffRest
    \/ \E c \in DlCalls : DownloadCtx(c) /\ UNCHANGED HandOffRest
    \/ \E c \in DlCalls : DownloadNext(c) /\ UNCHANGED HandOffRest
    \/ ListenEvent /\ UNCHANGED <<extVars, connVars, lockVars, tunnelVars, peerVars, apiVars>>
    \/ ListenTtl /\ UNCHANGED <<extVars, connVars, lockVars, tunnelVars, peerVars, apiVars>>
    \/ \E t \in BagToSet(tasks) :
          RunBroadcast(t)
              /\ UNCHANGED <<extVars, connVars, lockVars, stopVars, peerVars, collabVars,
                             apiVars>>

SpecHandOff == InitSpecHandOff /\ [][NextHandOff]_vars

(***************************************************************************)
(* SpecInfer: submitters, the worker loop and one Close call.  Every        *)
(* goroutine that can take a step eventually takes one.                    *)
(***************************************************************************)
InferRest ==
    <<fetchVars, newVars, seedVars, rpcVars, auxButInfer, connVars, lockVars, stopVars,
      tunnelVars, peerVars, collabVars, apiVars, taskVars>>

SubmitStep(c) == (SubmitCheck(c) \/ FetchReceive(c)) /\ UNCHANGED InferRest
WorkerStep == FetchExit /\ UNCHANGED InferRest
CloseStep == (CloseStore \/ CloseExit) /\ UNCHANGED InferRest

NextInfer ==
    \/ \E c \in Submitters : SubmitCheck(c) /\ UNCHANGED InferRest
    \/ \E c \in Submitters : FetchReceive(c) /\ UNCHANGED InferRest
    \/ \E c \in Submitters : SubmitNext(c) /\ UNCHANGED InferRest
    \/ FetchExit /\ UNCHANGED InferRest
    \/ CloseStore /\ UNCHANGED InferRest
    \/ CloseExit /\ UNCHANGED InferRest

SpecInfer ==
    /\ InitSpecStop
    /\ [][NextInfer]_vars
    /\ \A c \in Submitters : WF_vars(SubmitStep(c))
    /\ WF_vars(WorkerStep)
    /\ WF_vars(CloseStep)


(***************************************************************************)
(* Claims about broadcast and the Dedup Tunnel, stated on the history of   *)
(* calls.                                                                  *)
(***************************************************************************)
\* Calls i and j are two broadcasts for the same hash with no other
\* broadcast for that hash in between.
ConsecutiveCalls(i, j) ==
    /\ i < j
    /\ bcLog[i].ih = bcLog[j].ih
    /\ \A k \in (i + 1)..(j - 1) : bcLog[k].ih # bcLog[i].ih

CallPairs ==
    {p \in (1..Len(bcLog)) \X (1..Len(bcLog)) : ConsecutiveCalls(p[1], p[2])}

WithinTTL(i, j) == bcLog[j].at < bcLog[i].at + TTL

\* C1 (dedup idempotence): when broadcast(h, s) returned true and the next
\* broadcast for h comes before the entry's TTL elapses with a size s2 <= s,
\* that second call returns false: exactly one of the two is effective.
C1_DedupIdempotence ==
    \A p \in CallPairs :
        LET a == bcLog[p[1]]
            b == bcLog[p[2]]
        IN  (IsHexAddress(a.ih) /\ a.ret /\ b.size <= a.size /\ WithinTTL(p[1], p[2]))
                => ~b.ret

C1_Witness ==
    \E p \in CallPairs :
        /\ IsHexAddress(bcLog[p[1]].ih)
        /\ bcLog[p[1]].ret
        /\ bcLog[p[2]].size <= bcLog[p[1]].size
        /\ WithinTTL(p[1], p[2])
        /\ ~bcLog[p[2]].ret

\* C2 (dedup size monotonicity): for a valid hash with no live entry, a
\* broadcast at s1 followed within the TTL by one at s2 > s1 returns true both
\* times; a broadcast at s2 followed within the TTL by one at s1 < s2 returns
\* true, then false.
C2_SizeMonotonicity ==
    \A p \in CallPairs :
        LET a == bcLog[p[1]]
            b == bcLog[p[2]]
        IN  (IsHexAddress(a.ih) /\ a.pre.err /\ WithinTTL(p[1], p[2]))
                => /\ a.ret
                   /\ (a.size < b.size => b.ret)
                   /\ (b.size < a.size => ~b.ret)

C2_Witness ==
    \E p \in CallPairs :
        /\ IsHexAddress(bcLog[p[1]].ih)
        /\ bcLog[p[1]].pre.err
        /\ WithinTTL(p[1], p[2])
        /\ bcLog[p[1]].size < bcLog[p[2]].size
        /\ bcLog[p[1]].ret
        /\ bcLog[p[2]].ret

\* C3 (TTL expiry): when broadcast(h, s) returned true and the next broadcast
\* for h is made with the same size once the entry's TTL has elapsed, that
\* call returns true again.
C3_TTLExpiry ==
    \A p \in CallPairs :
        LET a == bcLog[p[1]]
            b == bcLog[p[2]]
        IN  (IsHexAddress(a.ih) /\ a.ret /\ b.size = a.size /\ ~WithinTTL(p[1], p[2]))
                => b.ret

C3_Witness ==
    \E p \in CallPairs :
        /\ IsHexAddress(bcLog[p[1]].ih)
        /\ bcLog[p[1]].ret
        /\ bcLog[p[2]].size = bcLog[p[1]].size
        /\ bcLog[p[2]].at = bcLog[p[1]].at + TTL
        /\ bcLog[p[2]].ret

(***************************************************************************)
(* Claims about the message loop.                                          *)
(***************************************************************************)
Terminated(s) == sess[s].pc \in {"deferred", "returned"}

\* The session's last packet passed the size check.
Dispatched(s) == sess[s].last # NoPacket /\ sess[s].last.size <= MaxMessageSize

MalformedQuery(m) ==
    m.code = QueryCode /\ (~m.decodes \/ ~IsHexAddress(m.hash))

\* C4 (protocol rejection): a dispatched message whose code is not Status,
\* Query or Msg ends the session with an error; a Query whose payload does
\* not decode or whose hash is not a well-formed hex address ends the session
\* with an error and raises no wake-up.
C4_ProtocolRejection ==
    \A s \in Sessions :
        sess[s].last # NoPacket =>
            /\ sess[s].last.code \notin {StatusCode, QueryCode, MsgCode}
                  => /\ Terminated(s)
                     /\ sess[s].err = IF Dispatched(s) THEN "invalid code"
                                      ELSE "oversized message received"
            /\ MalformedQuery(sess[s].last)
                  => /\ Terminated(s)
                     /\ sess[s].err \in IF Dispatched(s)
                                        THEN {"invalid msg", "invalid address"}
                                        ELSE {"oversized message received"}
                     /\ sess[s].woke = {}

C4_Witness ==
    \E s \in Sessions :
        /\ Dispatched(s) /\ sess[s].last.code = QueryCode
        /\ sess[s].last.decodes /\ sess[s].last.hash = HashShort
        /\ sess[s].pc = "returned"
        /\ sess[s].err = "invalid address" /\ sess[s].woke = {}
        /\ ledger # EmptyLedger /\ searches # {}

\* Session s reads and handles a packet in this step.
ReadStep(s) ==
    /\ sess[s].pc = "loop"
    /\ sess'[s] # sess[s]
    /\ sess'[s].last # NoPacket

\* C5 (oversized message): a packet larger than the maximum message size
\* ends the session at once, before its code is dispatched: the session's
\* peerInfo, the ledger, the Search requests and the tunnel are as before and
\* no wake-up is raised; a packet of exactly the maximum size is dispatched
\* (a decodable Status replaces the peerInfo, a well-formed Query raises the
\* wake-up, and the loop goes on).
C5_OversizedMessage ==
    [][\A s \in Sessions :
          ReadStep(s) =>
              LET m == sess'[s].last
              IN  /\ m.size > MaxMessageSize
                        => /\ sess'[s].pc = "deferred"
                           /\ sess'[s].err = "oversized message received"
                           /\ sess'[s].peerInfo = sess[s].peerInfo
                           /\ sess'[s].woke = {}
                           /\ UNCHANGED <<ledger, searches, tunnel>>
                  /\ (m.size = MaxMessageSize /\ m.code = StatusCode /\ m.decodes)
                        => sess'[s].pc = "loop" /\ sess'[s].peerInfo = m.info
                  /\ (m.size = MaxMessageSize /\ m.code = QueryCode /\ ~MalformedQuery(m))
                        => sess'[s].pc = "loop" /\ sess'[s].woke = {m.hash}
      ]_vars

C5_Witness ==
    \E s \in Sessions :
        /\ [ih |-> HashAB, size |-> 1] \in searches
        /\ sess[s].last # NoPacket
        /\ sess[s].last.size > MaxMessageSize
        /\ sess[s].last.code = StatusCode /\ sess[s].last.decodes
        /\ sess[s].last.info # sess[s].peerInfo
        /\ sess[s].err = "oversized message received"

(***************************************************************************)
(* Claims about Status.                                                    *)
(***************************************************************************)
\* C7 (Status state precedence): for every combination of the three flags
\* Status returns one state, chosen in the order Pending, Downloading,
\* Seeding, Missing: Pending whenever IsPending holds, whatever the other
\* two flags; Missing only when all three are false.
C7_StatusPrecedence ==
    statusRes # NoStatusCall =>
        LET fl == statusRes.flags
            ret == statusRes.ret
        IN  /\ ret \in {StatePending, StateDownloading, StateSeeding, StateMissing}
            /\ fl.isPending => ret = StatePending
            /\ (~fl.isPending /\ fl.isDownloading) => ret = StateDownloading
            /\ (~fl.isPending /\ ~fl.isDownloading /\ fl.isSeeding) => ret = StateSeeding
            /\ ret = StateMissing <=> fl = NoFlags

C7_Witness ==
    /\ statusRes # NoStatusCall
    /\ statusRes.flags.isPending
    /\ statusRes.flags.isDownloading
    /\ statusRes.flags.isSeeding
    /\ statusRes.ret = StatePending

(***************************************************************************)
(* Claims about GetFileWithSize.                                           *)
(***************************************************************************)
\* C6 (oversize guard): on every path of GetFileWithSize, the direct hit and
\* the hit found by the poll loop, when the bytes the collaborator returned
\* are longer than the caller's maximum size the call returns the
\* invalid-raw-size error and no bytes; bytes it does return are never longer
\* than that maximum.
C6_OversizeGuard ==
    \A c \in GetCalls :
        gets[c].pc = "done" =>
            /\ (~gets[c].got.err /\ gets[c].got.len > gets[c].rawSize)
                  => gets[c].ret = Return({}, "ErrInvalidRawSize")
            /\ \A n \in gets[c].ret.bytes : n <= gets[c].rawSize

C6_Witness ==
    \E c \in GetCalls :
        /\ gets[c].pc = "done"
        /\ gets[c].path = "poll"
        /\ ~gets[c].got.err
        /\ gets[c].got.len > gets[c].rawSize
        /\ gets[c].ret = Return({}, "ErrInvalidRawSize")


(***************************************************************************)
(* Claims about Stop.                                                      *)
(***************************************************************************)
Returned(c) == stops[c].pc = "returned"

\* C8: when a Stop call has returned, the scheduler loop has exited and so
\* has every peer session that was inside its message loop when the call
\* began.
C8_LoopsExitOnStop ==
    \A c \in StopCalls :
       Returned(c) =>
          /\ listen.pc = "exited"
          /\ \A s \in stops[c].looping : sess[s].pc = "returned"

\* C9: a collaborator (swarm handler, ledger, monitor) is released only
\* when the scheduler loop has exited and no peer session is inside its
\* message loop.
C9_ReleaseAfterLoops ==
    (closed.handler > 0 \/ closed.db > 0 \/ closed.monitor > 0) =>
       /\ listen.pc = "exited"
       /\ \A s \in Sessions : sess[s].pc # "loop"

\* C10: once a Stop call has returned the Dedup Tunnel is empty, and it stays
\* empty, also when goroutines of download were running as the call began.
C10_TunnelEmptyAfterStop ==
    \A c \in StopCalls : Returned(c) => TunnelLen(tunnel) = 0

\* A Stop call that began with a goroutine of download running has returned,
\* and its Drain removed an entry.
C10_Witness ==
    \E c \in StopCalls :
       /\ Returned(c)
       /\ stops[c].inflight > 0
       /\ stops[c].drained > 0
       /\ TunnelLen(tunnel) = 0

\* C11: whatever the number of Stop calls and their interleaving, the channel
\* closeAll and each collaborator are released at most once, they have been
\* released exactly once when a call has returned, and every call that has
\* returned has returned nil.
C11_StopIdempotent ==
    /\ closed.handler <= 1 /\ closed.db <= 1 /\ closed.monitor <= 1
    /\ closed.signal <= 1
    /\ \A c \in DOMAIN stops :
          Returned(c) =>
             /\ closed = [handler |-> 1, db |-> 1, monitor |-> 1, signal |-> 1]
             /\ stops[c].ret = NoErr

\* Two Stop calls have returned.
C11_Witness ==
    \E c, d \in DOMAIN stops :
       /\ c # d
       /\ Returned(c) /\ Returned(d)
       /\ closed = [handler |-> 1, db |-> 1, monitor |-> 1, signal |-> 1]

(***************************************************************************)
(* Claims about the scheduler loop.  A step of the loop that receives an   *)
(* event shortens fs.callback; a step that takes a deferred event shortens *)
(* fs.ttlchan.                                                             *)
(***************************************************************************)
Receives == listen.pc = "select" /\ Len(callback') < Len(callback)
Deferrable(meta) == meta.request = 0 /\ ~IsGood(meta.ih)
SearchOf(ih, size) == [ih |-> ih, size |-> size]

C13_ImmediateFetch ==
    /\ [](/\ \A i \in 1..Len(ttlchan) : Deferrable(ttlchan[i])
          /\ \A i \in 1..Len(listen.held) : Deferrable(listen.held[i]))
    /\ [][ (Receives /\ ~Deferrable(Head(callback))) =>
             /\ Fetch(Head(callback))
             /\ ttlchan' = ttlchan
             /\ listen' = listen ]_vars

\* Both kinds of immediate event have been fetched: a good hash with size 0
\* and a hash that is not good with size 1.
C13_Witness ==
    /\ SearchOf(ToLower(HashAB), 0) \in searches
    /\ SearchOf(ToLower(HashCd), 1) \in searches

\* C14: the scheduler loop is never blocked in the send that enqueues a
\* deferred event.
C14_NeverBlocksOnDeferral == listen.pc # "sending"

(***************************************************************************)
(* Claims about HandlePeer.                                                *)
(***************************************************************************)
HasReturned(s) == sess[s].pc = "returned"
RegisteredAs(s) == sess[s].id \in DOMAIN peers /\ peers[sess[s].id] = s

\* C15: the step in which HandlePeer returns leaves the registry without the
\* session's id, and a session whose HandlePeer has returned, by whatever
\* path, is not the registry's entry for its id and has no timer running.
C15_RegistrationUndone ==
    /\ [](\A s \in Sessions :
             HasReturned(s) => ~RegisteredAs(s) /\ ~sess[s].started)
    /\ [][ \A s \in Sessions :
             (~HasReturned(s) /\ HasReturned(s)') =>
                 sess[s].id \notin DOMAIN peers' ]_vars

\* A session whose timers were started has returned on a protocol error, and
\* the registry is empty again.
C15_Witness ==
    \E s \in Sessions :
       /\ HasReturned(s)
       /\ sess[s].err = "invalid code"
       /\ sess[s].last # NoPacket
       /\ peers = <<>>
       /\ in = 1 /\ out = 1

\* C16: before the handshake has succeeded no timer is started and no packet
\* is read; a session whose handshake failed goes straight to its return
\* with that error, its timers never started, no packet read and no wake-up
\* made.
C16_HandshakeFailureAborts ==
    \A s \in Sessions :
       /\ sess[s].pc \in {"idle", "registered"} =>
             ~sess[s].started /\ sess[s].last = NoPacket /\ sess[s].woke = {}
       /\ sess[s].err = "handshake failed" =>
             /\ sess[s].pc \in {"deferred", "returned"}
             /\ ~sess[s].started
             /\ sess[s].last = NoPacket
             /\ sess[s].woke = {}

\* HandlePeer has returned the handshake error.
C16_Witness ==
    \E s \in Sessions :
       /\ HasReturned(s)
       /\ sess[s].err = "handshake failed"
       /\ ~RegisteredAs(s)

(***************************************************************************)
(* Claims about the registry lock.                                         *)
(***************************************************************************)
Writing(s) == sess[s].pc \in {"registering", "unregistering"}
Reading(c) == callers[c].pc = "reading"

\* C17: a session inside its write of the peer map holds fs.peerMu for
\* writing, a call reading the map holds it for reading, and no read of the
\* map is under way while a session is inside its write.
C17_RegistryLockDiscipline ==
    /\ \A s \in Sessions : Writing(s) => peerMu.writer = {s}
    /\ \A c \in Callers : Reading(c) => c \in peerMu.readers
    /\ \A s \in Sessions, c \in Callers : ~(Writing(s) /\ Reading(c))

(***************************************************************************)
(* Claims about the order in which a session's packets are handled.        *)
(***************************************************************************)
Rejects(m) == handlePacket(NoInfo, m).err # NoErr
Arrived(s) == handled[s] \o wire[s]

\* C18: the packets a session has handled followed by those it has not read
\* yet are always the packets in their order of arrival; the loop handles
\* one packet per step, the oldest unread one, and that step carries the
\* packet's whole effect (peerInfo, wake-up, termination); a packet the loop
\* rejects is the last one it handles.
C18_PerPeerOrdering ==
    /\ [](\A s \in Sessions :
             \A i \in 1..(Len(handled[s]) - 1) : ~Rejects(handled[s][i]))
    /\ [][ \A s \in Sessions :
             /\ \/ Arrived(s)' = Arrived(s)
                \/ \E m \in OrderPackets : Arrived(s)' = Append(Arrived(s), m)
             /\ handled'[s] # handled[s] =>
                  /\ sess[s].pc = "loop"
                  /\ wire[s] # <<>>
                  /\ handled'[s] = Append(handled[s], Head(wire[s]))
                  /\ LET r == handlePacket(sess[s].peerInfo, Head(wire[s]))
                     IN  /\ sess'[s].peerInfo = r.peerInfo
                         /\ sess'[s].woke = r.wake
                         /\ \A ih \in r.wake : wakeup(ledger, ih) \subseteq searches'
                         /\ sess'[s].pc = IF r.err = NoErr THEN "loop" ELSE "deferred" ]_vars

\* A session has replaced its peerInfo on a first packet, was ended by the
\* second, and has returned with a third packet never read.
C18_Witness ==
    \E s \in Sessions :
       /\ Len(handled[s]) = 2
       /\ handled[s][1].code = StatusCode
       /\ handled[s][2].code = OtherCode
       /\ sess[s].peerInfo = "info2"
       /\ sess[s].err = "invalid code"
       /\ HasReturned(s)
       /\ wire[s] # <<>>

\* C19: once the scheduler loop has exited, no event is left in fs.callback
\* or in fs.ttlchan.
C19_NoEventLeftUnconsumed ==
    listen.pc = "exited" => callback = <<>> /\ ttlchan = <<>>

(***************************************************************************)
(* Claims about remote queries.                                            *)
(***************************************************************************)
WellFormedQuery(m) ==
    m.code = QueryCode /\ ~oversized(m) /\ m.decodes /\ IsHexAddress(m.hash)
HandlesQuery(s) ==
    handled'[s] # handled[s] /\ wire[s] # <<>> /\ WellFormedQuery(Head(wire[s]))

Missed(c) == gets[c].pc # "idle" /\ gets[c].path # "direct"

\* The step in which a call starts and its first GetFile fails.
MissStep(c) == gets[c].pc = "idle" /\ gets'[c].pc # "idle" /\ gets'[c].path # "direct"

\* C21 as stated (miss always polls): for every hash, a call whose first
\* local read failed never returns that first not-found error; it returns
\* only bytes, the oversize error or the context's error.
C21_MissNeverReturnsFirstError ==
    \A c \in GetCalls :
        (gets[c].pc = "done" /\ Missed(c)) =>
            gets[c].ret.err \in {"nil", "ErrInvalidRawSize", "ctx.Err"}

\* C21 amended (miss wakes, good hashes poll): a call whose first local read
\* failed always starts one background wake-up counted by the wait group;
\* for a hash of the good list it then polls and returns only bytes, the
\* oversize error or the context's error; for any other hash it does not
\* poll and returns the first read's error with no bytes.
C21_MissWakesAndGoodPolls ==
    /\ [](\A c \in GetCalls :
            Missed(c) =>
               IF IsGood(gets[c].ih)
               THEN /\ gets[c].path = "poll"
                    /\ gets[c].pc = "done" =>
                          gets[c].ret.err \in {"nil", "ErrInvalidRawSize", "ctx.Err"}
               ELSE /\ gets[c].pc = "done"
                    /\ gets[c].path = "miss"
                    /\ gets[c].ret = Return({}, "GetFile error"))
    /\ [][\A c \in GetCalls :
            MissStep(c) =>
               /\ tasks' = Spawn(tasks, WakeupTask(gets'[c].ih))
               /\ wg' = wg + 1]_vars

C21_Witness ==
    /\ \E c \in GetCalls :
          /\ gets[c].pc = "done"
          /\ gets[c].path = "miss"
          /\ ~IsGood(gets[c].ih)
          /\ gets[c].ret = Return({}, "GetFile error")
    /\ \E ih \in GetHashes : ~IsGood(ih) /\ BagIn(WakeupTask(ih), tasks)

(***************************************************************************)
(* Claims about the fetch path, download.                                  *)
(***************************************************************************)
\* The last call of download, when there has been one.
LastFetch == fetched[1]

\* The size download resolves when the ledger answers: the larger of the
\* requested size and the size the ledger tracked before.
Resolved(f) == IF f.prior >= f.request THEN f.prior ELSE f.request

BroadcastStep == Len(bcLog') = Len(bcLog) + 1

\* C24 (invalid hash is a no-op): a broadcast call with a hash that is not a
\* well-formed hex address returns false and leaves the tunnel as it was: no
\* entry is created, replaced or refreshed.
C24_InvalidHashNoOp ==
    [][(BroadcastStep /\ ~IsHexAddress(bcLog'[Len(bcLog')].ih))
          => (~bcLog'[Len(bcLog')].ret /\ tunnel' = tunnel)]_vars

C24_Witness ==
    /\ bcLog # <<>>
    /\ ~IsHexAddress(bcLog[Len(bcLog)].ih)
    /\ ~bcLog[Len(bcLog)].ret
    /\ bcLog[Len(bcLog)].size > 0
    /\ tunnel # EmptyTunnel

\* C25 (tunnel holds the maximum): under any interleaving of the broadcast
\* goroutines spawned by the fetch path, the value of a live tunnel entry is
\* never replaced by a smaller one, so a live entry holds the largest size
\* announced for its hash within the TTL window.
C25_TunnelHoldsMaximum ==
    [][\A h \in DOMAIN tunnel :
          (TunnelHas(tunnel, h, now) /\ h \in DOMAIN tunnel')
              => tunnel'[h].value >= tunnel[h].value]_vars

(***************************************************************************)
(* Claims about Status as a query.                                         *)
(***************************************************************************)
\* The step is a Status query: the history of the last query changes.
StatusStep == statusRes' # statusRes

\* C26 (Status is read-only): a Status query changes nothing of the
\* scheduler, the deferred queue, the tunnel, the peer registry, the ledger
\* or the collaborator, and its result is the classification of the hash's
\* three flags at the call, whatever events are waiting and whatever was
\* asked before.
C26_StatusReadOnly ==
    [][StatusStep =>
          /\ UNCHANGED <<tunnelVars, peerVars, collabVars, taskVars, stopVars,
                         lockVars, connVars, gets, worm>>
          /\ statusRes'.flags = torrents[statusRes'.ih]
          /\ statusRes'.ret = Status(torrents[statusRes'.ih])]_vars

C26_Witness ==
    /\ statusRes # NoStatusCall
    /\ statusRes.ret = StateDownloading
    /\ torrents[statusRes.ih] = statusRes.flags
    /\ callback # <<>>
    /\ ttlchan # <<>>

(***************************************************************************)
(* Claims about New.                                                       *)
(***************************************************************************)
\* The step in which call c finds that a collaborator cannot be created.
NewFails(c) ==
    news[c].pc = "build" /\ news'[c].pc = "unlock" /\ news'[c].ret.err # NoErr

\* C27 (construct once): under any interleaving of New calls at most one
\* instance is constructed and one scheduler loop started; a call that
\* returns no error returns the one instance; a call that fails returns no
\* instance and leaves inst nil.
C27_ConstructOnce ==
    /\ [](/\ built <= 1
          /\ wg = built
          /\ inst = (IF built = 0 THEN NilInst ELSE {1})
          /\ \A c \in NewCalls :
                news[c].pc \in {"unlock", "done"} =>
                   IF news[c].ret.err = NoErr
                   THEN news[c].ret.inst = {1} /\ inst = {1}
                   ELSE news[c].ret.inst = NilInst)
    /\ [][\A c \in NewCalls :
             NewFails(c) => (inst' = NilInst /\ built' = built /\ listen' = listen)]_vars

C27_Witness ==
    \E a, b, c \in NewCalls :
        /\ news[a].pc = "done" /\ news[a].ret.err \in NewErrors
        /\ news[b].pc = "done" /\ news[b].ret = [inst |-> {1}, err |-> NoErr]
        /\ news[c].pc = "done" /\ news[c].ret = [inst |-> {1}, err |-> NoErr]
        /\ b # c
        /\ built = 1
        /\ listen = ListenSelect

(***************************************************************************)
(* Claims about the seen-set.                                              *)
(***************************************************************************)
\* C28 (seen-set is append-only): a hash added to the seen-set is a member
\* in every later state; no step, Stop's included, removes a member, and
\* encounter goroutines that insert the same hash concurrently leave the set
\* with that hash as one member.
C28_SeenSetAppendOnly ==
    /\ [][worm \subseteq worm']_vars
    /\ [][\A t \in BagToSet(tasks) :
             (t.kind = "add" /\ tasks' = Finish(tasks, t))
                 => worm' = worm \cup {t.ih}]_vars

C28_Witness ==
    /\ worm = SeenHashes
    /\ BagIn(AddTask(HashCd), tasks)
    /\ \E c \in DOMAIN stops : stops[c].pc = "returned"

(***************************************************************************)
(* Claims about SeedingLocal.                                              *)
(***************************************************************************)
\* C29 (seeding pipeline aborts on failure): a SeedingLocal call that reports
\* a failure has not registered the artifact as a local seed, and a call
\* that reports no failure has run every step: it has triggered the local
\* search at size 0 and registered the artifact.
C29_SeedingAbortsOrCompletes ==
    seed.pc = "returned" =>
        IF seed.err # NoErr
        THEN ~seed.registered
        ELSE /\ seed.searched
             /\ [ih |-> Hash0xAB, size |-> 0] \in searches
             /\ seed.registered
             /\ seed.infoHash \in localSeeds

(***************************************************************************)
(* Claims about rpc.Server.                                                *)
(***************************************************************************)
\* C30 (no serving after stop): once Stop has run no codec is added to the
\* tracked set; a ServeCodec call that starts after Stop has run returns
\* without serving; and every ServeCodec call that has returned has closed
\* its codec, whether the codec was closed first or the server stopped.
C30_NoServeAfterStop ==
    /\ [](\A c \in Codecs :
            /\ serves[c].late =>
                  (~serves[c].served /\ c \notin codecs
                     /\ serves[c].pc \in {"lock", "check", "close", "returned"})
            /\ serves[c].pc = "returned" => codecClosed[c])
    /\ [][~run => codecs' \subseteq codecs]_vars

C30_Witness ==
    \E a, b \in Codecs :
        /\ serves[a].pc = "returned" /\ serves[a].late /\ ~serves[a].served
        /\ serves[b].pc = "returned" /\ ~serves[b].late /\ serves[b].served
        /\ codecClosed[a] /\ codecClosed[b]
        /\ ~run
        /\ codecs = {}

\* The step in which a Stop call passes its CompareAndSwap.
RpcStopStep == rpcStop = "swap" /\ rpcStop' = "returned"

\* C31 (Stop closes all codecs once): the first Stop closes every codec
\* tracked at that moment; whatever ServeCodec calls run beside it, no codec
\* is tracked and unclosed once Stop has run; and a later Stop closes
\* nothing and changes nothing of the server.
C31_StopClosesAllOnce ==
    /\ [](~run => \A c \in codecs : codecClosed[c])
    /\ [][(RpcStopStep /\ run) =>
             (~run' /\ \A c \in codecs : codecClosed'[c])]_vars
    /\ [][(RpcStopStep /\ ~run) =>
             UNCHANGED <<run, codecs, codecClosed, serves>>]_vars

C31_Witness ==
    /\ ~run
    /\ rpcStop = "swap"
    /\ codecs # {}
    /\ \E c \in Codecs : serves[c].pc = "lock"
    /\ \A c \in codecs : codecClosed[c] /\ serves[c].pc = "serving"

(***************************************************************************)
(* C32: after any sequence of Add operations the recorded size is the      *)
(* total length of the values held and is at most the capacity, unless the *)
(* cache holds one value longer than the capacity, which is then the only  *)
(* entry; Add evicts the least recently used entries first, and adding a   *)
(* key already held does not grow the size.                                *)
(***************************************************************************)
LruIsAdd(k) == lru' # <<>> /\ lru'[Len(lru')] = k /\ lruGot' = lruGot

LruSized ==
    /\ lruSize = TotalLen(lru)
    /\ \/ lruSize <= LruCap
       \/ Len(lru) = 1 /\ ValueLen(lru[1]) > LruCap

C33_BroadcastIffMissingAtResolved ==
    (fetched # <<>> /\ ~fetched[1].dbErr) =>
        LET f == fetched[1]
            key == ToLower(f.ih)
        IN  /\ f.result.spawn # {} <=> ~Exists(stored, key, Resolved(f))
            /\ f.result.spawn \subseteq {BroadcastTask(key, Resolved(f))}

(***************************************************************************)
(* Claims about the scheduler's ticks and its deferred queue.              *)
(***************************************************************************)
\* the loop takes the value waiting on ttl.C, or on ticker.C
FastTickStep == ttl = "fired" /\ ttl' # "fired"
SlowTickStep == ticker = "fired" /\ ticker' # "fired"

\* C34 (one deferred event per fast tick): a fast tick that finds the
\* PendingQueue non-empty removes exactly its oldest event and runs the fetch
\* path for that event and no other; a fast tick that finds it empty runs no
\* fetch; either way the fast timer is armed again; a slow tick changes
\* nothing of the scheduler, the queue, the tunnel, the ledger or the tasks.
C34_OnePerFastTick ==
    /\ [][FastTickStep =>
            /\ ttl' = "armed"
            /\ IF ttlchan # <<>>
               THEN /\ ttlchan' = Tail(ttlchan)
                    /\ refetched' = Append(refetched, Head(ttlchan))
               ELSE UNCHANGED <<ttlchan, refetched, collabVars, taskVars>>
            /\ UNCHANGED <<callback, listen, tunnelVars>>]_vars
    /\ [][SlowTickStep =>
            UNCHANGED <<stopVars, tunnelVars, collabVars, taskVars, ttl, deferLog,
                        refetched>>]_vars

\* a fast tick has taken one of two deferred events, and the timer runs again
C34_Witness ==
    /\ Len(refetched) = 1
    /\ Len(ttlchan) = 1
    /\ ttl = "armed"
    /\ deferLog = refetched \o ttlchan

\* C35 (deferral order): the deferred events are fetched in the order in
\* which they were deferred, and the PendingQueue never holds more than its
\* capacity.
C35_DeferralFifo ==
    /\ deferLog = refetched \o ttlchan
    /\ Len(ttlchan) <= TtlchanCap

\* two different events were deferred and both fetched, the first one first
C35_Witness ==
    /\ Len(refetched) >= 2
    /\ refetched[1] # refetched[2]
    /\ refetched = SubSeq(deferLog, 1, Len(refetched))

\* the step is the return of true by the broadcast goroutine t
ReturnsTrue(t) == BagIn(t, tasks) /\ t.kind = "set" /\ tasks' = Finish(tasks, t)

\* C36 (concurrent dedup): of the broadcast tasks spawned for one valid hash
\* and one size, at most one returns true within a TTL window: no task
\* returns true for (hash, size) while the tunnel holds the live entry
\* (hash, size) that another task's return of true left there.
C36_AtMostOneAnnounces ==
    [][\A t \in BagToSet(tasks) :
          ReturnsTrue(t) =>
              ~(TunnelHas(tunnel, t.ih, now) /\ tunnel[t.ih].value = t.p)]_vars

\* C37 (registry matches counters): whenever no HandlePeer call is inside a
\* locked section, the registry has in - out entries, and every session that
\* has registered and not yet returned is the registry's entry for its id,
\* also when two connections present the same node id.
C37_RegistryMatchesCounters ==
    peerMu.writer = {} =>
        /\ Cardinality(DOMAIN peers) = in - out
        /\ \A s \in DOMAIN sess :
              sess[s].pc \in {"registered", "loop", "deferred"} =>
                  sess[s].id \in DOMAIN peers /\ peers[sess[s].id] = s

\* C38 (Stop terminates): every call of Stop that has begun eventually
\* returns, whatever waits in the PendingQueue or on the input channel, and
\* the scheduler loop never stays away from its select for ever.
C38_StopTerminates ==
    /\ \A c \in StopCalls : (stops[c].pc # "idle") ~> (stops[c].pc = "returned")
    /\ (listen.pc = "sending") ~> (listen.pc # "sending")

(***************************************************************************)
(* Claims about Download.                                                  *)
(***************************************************************************)
\* call c returns in this step
DlReturns(c) == dl[c].pc # "returned" /\ dl'[c].pc = "returned"

\* a returned nil means the event was placed, a returned context error
\* means the context had ended and nothing was placed
DlOutcome(c) ==
    dl[c].pc = "returned" =>
        /\ dl[c].ret \in {NoErr, CtxErr}
        /\ dl[c].ret = NoErr => dl[c].sent
        /\ dl[c].ret = CtxErr => ~dl[c].sent /\ dl[c].ctxDone

\* a call does not return while the channel is full and its context lives
DlBlocks ==
    [][\A c \in DlCalls :
          DlReturns(c) => Len(callback) < CallbackCap \/ dl[c].ctxDone]_vars

\* C39 (Download hand-off): Download returns nil only after its event was
\* placed on the input channel; when the context ends before the event is
\* placed the call returns the context's error and places nothing; while the
\* channel is full the call does not return until the context ends.
C39_HandOff ==
    /\ [](\A c \in DlCalls : DlOutcome(c) /\ ~(dl[c].sent /\ dl[c].late))
    /\ DlBlocks

\* C39 amended: as above, except that a call whose context had already ended
\* when it reached its select, and which found room in the channel, may
\* place its event and return nil instead; a call that waited for room
\* never places its event after its context ended.
C39_HandOffUnlessBothReady ==
    /\ [](\A c \in DlCalls :
            /\ DlOutcome(c)
            /\ (dl[c].sent /\ dl[c].late) => dl[c].atEntry)
    /\ DlBlocks

\* a call with an ended context found room, placed its event and returned nil
C39_Witness ==
    \E c \in DlCalls :
       /\ dl[c].pc = "returned" /\ dl[c].ret = NoErr
       /\ dl[c].sent /\ dl[c].late /\ dl[c].atEntry
       /\ callback # <<>> /\ callback[Len(callback)] = dl[c].ev

(***************************************************************************)
(* Claims about the inference server.                                      *)
(***************************************************************************)
\* C40 (inference submit versus close): every submitInferWork call returns,
\* with its work handed to the worker loop or with the closed error; no work
\* is accepted after Close has returned, and no submitter is blocked on the
\* work channel once the worker loop has exited.
C40_SubmitVersusClose ==
    /\ [](\A c \in Submitters :
            /\ subs[c].pc = "returned" =>
                  \/ subs[c].ret = NoErr /\ subs[c].handed
                  \/ subs[c].ret = ErrClosed /\ ~subs[c].handed
            /\ ~(subs[c].handed /\ subs[c].late)
            /\ ~(fetchWork = "exited" /\ subs[c].pc = "sending"))
    /\ \A c \in Submitters : (subs[c].pc = "sending") ~> (subs[c].pc = "returned")

=============================================================================
